---- MODULE Spec2Model ----
(***************************************************************************)
(* Model of the HomeX merge script: the catalog index (sheet.py), the      *)
(* checkpoint serialization (type.py, io_util.py), the match decision      *)
(* policy and the batch orchestrator (merge.py), with the remote           *)
(* collaborators (vector store, LLM client, push notification) as          *)
(* nondeterministic environments.                                          *)
(***************************************************************************)
EXTENDS Integers, Sequences, FiniteSets, TLC

VARIABLES
    workbooks,           \* self.__workbooks: the catalog index of each provider
    args,                \* args of main(): the parsed command line
    service,             \* the catalogs whose items the generation service names
    run,                 \* number of the current invocation of the script
    pc,                  \* position of the orchestrator in Merge.__merge_all
    creds,               \* PUSHOVER_TOKEN and PUSHOVER_USER are both set
    checkpoint,          \* the checkpoint file: [exists, data]
    prior_merge_lookup,  \* dict built by __load_prior_merges
    item_merges,         \* the in-memory ledger
    pidx,                \* position in sorted_providers (1-based)
    idx,                 \* enumerate index in workbook.item_refs (0-based)
    reference_filters,   \* result of __get_reference_filters for the provider
    cur,                 \* locals of the loop body for the current item
    error,               \* the exception propagating out of __merge_all
    pushes,              \* outbound push notification requests of this run
    revisit,             \* lines of output/items-to-revisit.txt
    remote,              \* items for which this run made a remote call
    prev,                \* outcome and final ledger of the previous run
    report,              \* locals of Merge.merge and the output file it wrote
    arg,                 \* input of a function that is explored on its own
    result               \* what that function returned

vars == <<workbooks, args, service, run, pc, creds, checkpoint, prior_merge_lookup, item_merges, pidx,
          idx, reference_filters, cur, error, pushes, revisit, remote, prev,
          report, arg, result>>

-----------------------------------------------------------------------------
(* Bounds of the model *)

\* Number of consecutive invocations of the script that are explored.
MaxRuns == 2

\* Longest ledger that is saved and loaded on its own.
MaxLedgerLen == 4

\* Largest number of data rows of a sheet whose index is built on its own.
MaxRows == 2

\* Largest number of reference items handed to the chunked generation call.
MaxReferenceItems == 4

\* GeminiClient.CHUNK_SIZE, scaled down from 4,000 so that reference sets of
\* one, two and three chunks are explored.
CHUNK_SIZE == 2

-----------------------------------------------------------------------------
(* type.py *)

\* Python None (for Optional values that are records in the model)
None == [none |-> TRUE]

\* Enum members are named by their member names; .value is the StrEnum value.
Provider == {"Haller", "Gem", "Universe", "WeltmanPrinceton"}

ProviderValue(p) ==
    CASE p = "Haller" -> "haller"
      [] p = "Gem" -> "gem"
      [] p = "Universe" -> "universe"
      [] p = "WeltmanPrinceton" -> "weltmanprinceton"

\* Provider(value): the member with that value
ProviderFromValue(v) == CHOOSE p \in Provider : ProviderValue(p) = v

\* sorted(Provider, key=lambda p: p.value)
sorted_providers == <<"Gem", "Haller", "Universe", "WeltmanPrinceton">>

SheetName == {"Materials", "Equipment"}

\* SheetName members carry their own names as values
SheetNameValue(s) == s

ItemReference(provider, sheet_name, id) ==
    [provider |-> provider, sheet_name |-> sheet_name, id |-> id]

ItemReference_to_dict(ref) ==
    [provider |-> ProviderValue(ref.provider),
     sheet_name |-> SheetNameValue(ref.sheet_name),
     id |-> ref.id]

ItemReference_from_dict(data) ==
    ItemReference(ProviderFromValue(data.provider), data.sheet_name, data.id)

\* MatchType(StrEnum) with auto(): the value is the lower-cased member name
MatchTypeValue(m) ==
    CASE m = "ExactCode" -> "exactcode"
      [] m = "StrongLLM" -> "strongllm"
      [] m = "HazyLLM" -> "hazyllm"
      [] m = "NoMatch" -> "nomatch"

\* match_type=None of an ItemOutput (the field is a MatchType or None)
NoType == "None"

\* The four dataclasses; cls is the Python class of the object.
ExactCodeMatch(query, match) ==
    [cls |-> "ExactCodeMatch", query |-> query, match |-> match, type |-> "ExactCode"]

StrongLLMMatch(query, match) ==
    [cls |-> "StrongLLMMatch", query |-> query, match |-> match, type |-> "StrongLLM"]

HazyLLMMatch(query, match) ==
    [cls |-> "HazyLLMMatch", query |-> query, match |-> match, type |-> "HazyLLM"]

NoMatch(query) ==
    [cls |-> "NoMatch", query |-> query, type |-> "NoMatch"]

\* isinstance(merge, NoMatch)
IsNoMatch(merge) == merge.cls = "NoMatch"

\* to_dict of the four dataclasses
ItemMerge_to_dict(merge) ==
    IF IsNoMatch(merge)
    THEN [type |-> MatchTypeValue(merge.type),
          query |-> ItemReference_to_dict(merge.query)]
    ELSE [type |-> MatchTypeValue(merge.type),
          query |-> ItemReference_to_dict(merge.query),
          match |-> ItemReference_to_dict(merge.match)]

-----------------------------------------------------------------------------
(* io_util.py: the checkpoint file *)

ValueError == [raised |-> "ValueError"]

IsError(x) == "raised" \in DOMAIN x

\* from_dict of the four dataclasses (the type field takes its default)
ExactCodeMatch_from_dict(data) ==
    ExactCodeMatch(ItemReference_from_dict(data.query), ItemReference_from_dict(data.match))

StrongLLMMatch_from_dict(data) ==
    StrongLLMMatch(ItemReference_from_dict(data.query), ItemReference_from_dict(data.match))

HazyLLMMatch_from_dict(data) ==
    HazyLLMMatch(ItemReference_from_dict(data.query), ItemReference_from_dict(data.match))

NoMatch_from_dict(data) ==
    NoMatch(ItemReference_from_dict(data.query))

\* Variant of deserialize_merge: the hazy tag is read as a strong match
deserialize_merge_HazyAsStrong(data) ==
    IF data.type = MatchTypeValue("ExactCode") THEN ExactCodeMatch_from_dict(data)
    ELSE IF data.type = MatchTypeValue("StrongLLM") THEN StrongLLMMatch_from_dict(data)
    ELSE IF data.type = MatchTypeValue("HazyLLM") THEN StrongLLMMatch_from_dict(data)
    ELSE IF data.type = MatchTypeValue("NoMatch") THEN NoMatch_from_dict(data)
    ELSE ValueError

deserialize_merge(data) ==
    LET merge_type == data.type
    IN IF merge_type = MatchTypeValue("ExactCode") THEN ExactCodeMatch_from_dict(data)
       ELSE IF merge_type = MatchTypeValue("StrongLLM") THEN StrongLLMMatch_from_dict(data)
       ELSE IF merge_type = MatchTypeValue("HazyLLM") THEN HazyLLMMatch_from_dict(data)
       ELSE IF merge_type = MatchTypeValue("NoMatch") THEN NoMatch_from_dict(data)
       ELSE ValueError

\* The file written by save_merges_to_json: open(filename, 'w') truncates the
\* file and json.dump writes the list of dicts.
save_merges_to_json(merges) ==
    [exists |-> TRUE, data |-> [i \in 1..Len(merges) |-> ItemMerge_to_dict(merges[i])]]

\* The list read by load_merges_from_json; one bad record fails the whole load.
load_merges_from_json(file) ==
    LET merges == [i \in 1..Len(file.data) |-> deserialize_merge(file.data[i])]
    IN IF \E i \in 1..Len(merges) : IsError(merges[i]) THEN ValueError
       ELSE [returned |-> merges]

file_exists(file) == file.exists

NoFile == [exists |-> FALSE, data |-> <<>>]

\* add_to_revisit_list appends one line to the revisit file
add_to_revisit_list(lines, item_ref) == Append(lines, item_ref)

\* The values written to the cells of the output sheet: a string, a number,
\* or None for a cell that is left empty
Text(s) == [text |-> s]
Number(n) == [number |-> n]

\* to_merge_table_match_type; a match type that no case matches falls
\* through the match statement and gives None
to_merge_table_match_type(match_type) ==
    CASE match_type = NoType -> Text("(Original)")
      [] match_type \in {"ExactCode", "StrongLLM"} -> Text("Matched")
      [] match_type = "HazyLLM" -> Text("Hazy Match")
      [] OTHER -> None

\* Variant of to_merge_table_row_section: the placeholder is one cell short
to_merge_table_row_section_ShortPlaceholder(section_input) ==
    IF section_input = None
    THEN <<Text("No Match")>> \o [i \in 1..9 |-> None]
    ELSE <<to_merge_table_match_type(section_input.match_type),
           Text(""), Text(""), Text("NI"),
           Number(section_input.id), Text(section_input.code),
           Text(""), Text(""), Text(""), Text(""), Number(0)>>

\* to_merge_table_row_section: the 11 cells of one provider. The rows of the
\* spreadsheets of the model have the columns Id and Code only, so the other
\* fields of the ItemOutput are None (is_inventory is False) and are written
\* as '', 'NI' and 0.0.
to_merge_table_row_section(section_input) ==
    IF section_input = None
    THEN <<Text("No Match")>> \o [i \in 1..10 |-> None]
    ELSE <<to_merge_table_match_type(section_input.match_type),
           Text(""), Text(""), Text("NI"),
           Number(section_input.id), Text(section_input.code),
           Text(""), Text(""), Text(""), Text(""), Number(0)>>

\* to_merge_table_row: the sections of a row, chained
to_merge_table_row(row_input) ==
    LET RECURSIVE Chain(_)
        Chain(c) == IF c > Len(row_input) THEN <<>>
                    ELSE to_merge_table_row_section(row_input[c]) \o Chain(c + 1)
    IN Chain(1)

section_headers ==
    <<"Match Type", "Category ID", "Category Name", "Inventory/Non-Inventory?", "ID",
      "Code", "Name", "Description", "Intacct GL Group", "UOM", "Cost">>

\* output_merge_table: the rows appended to the sheet "Merge Result": the
\* headers, once per section of the first row, then one row per row of
\* output_data
output_merge_table(output_data) ==
    LET RECURSIVE Repeat(_)
        Repeat(n) == IF n = 0 THEN <<>> ELSE section_headers \o Repeat(n - 1)
    IN [header |-> Repeat(Len(output_data[1])),
        rows |-> [r \in 1..Len(output_data) |-> to_merge_table_row(output_data[r])]]

-----------------------------------------------------------------------------
(* sheet.py: the catalog index *)

\* The data rows of the provider spreadsheets (columns Id and Code), per sheet.
\* Three sets of spreadsheets are explored; a run works on one of them.
Datasets == {"A", "B", "C"}

SheetRows(ds, provider, sheet_name) ==
    CASE provider = "Haller" /\ sheet_name = "Equipment" -> <<[Id |-> 1, Code |-> "X100"]>>
      [] provider = "Haller" /\ sheet_name = "Materials" -> <<[Id |-> 2, Code |-> "Y200"]>>
      [] provider = "Gem" /\ sheet_name = "Equipment" -> <<[Id |-> 55, Code |-> "X100"]>>
      [] provider = "Gem" /\ sheet_name = "Materials" ->
            IF ds = "A"
            THEN <<[Id |-> 56, Code |-> "G56"], [Id |-> 57, Code |-> "G57"]>>
            ELSE <<[Id |-> 56, Code |-> "G56"]>>
      [] provider = "Universe" /\ sheet_name = "Equipment" ->
            IF ds = "C" THEN <<>> ELSE <<[Id |-> 1, Code |-> "U1"]>>
      [] provider = "Universe" /\ sheet_name = "Materials" ->
            IF ds = "C" THEN <<>> ELSE <<[Id |-> 2, Code |-> "Y200"]>>
      [] provider = "WeltmanPrinceton" /\ sheet_name = "Equipment" ->
            IF ds = "B" THEN <<[Id |-> 7, Code |-> "W7"]>> ELSE <<>>
      [] provider = "WeltmanPrinceton" /\ sheet_name = "Materials" ->
            IF ds = "A" THEN <<>>
            ELSE IF ds = "B" THEN <<[Id |-> 8, Code |-> "X100"]>>
            ELSE <<[Id |-> 7, Code |-> "W7"], [Id |-> 8, Code |-> "W8"]>>

ProviderItem(provider, sheet_name, data) ==
    [provider |-> provider, sheet_name |-> sheet_name, id |-> data.Id, code |-> data.Code]

to_item_ref(item) == ItemReference(item.provider, item.sheet_name, item.id)

\* A missing cell value (None) in the Id or Code column
NoId == -1
NoCode == "None"

\* Variant of ProviderSheet: a code that was already seen is not looked for
ProviderSheet_CodesUnchecked(provider, sheet_name, rows) ==
    LET items == [i \in 1..Len(rows) |-> ProviderItem(provider, sheet_name, rows[i])]
        fails(i) ==
            \/ items[i].id = NoId
            \/ \E j \in 1..(i - 1) : items[j].id = items[i].id
            \/ items[i].code = NoCode
    IN IF \E i \in 1..Len(rows) : fails(i) THEN ValueError
       ELSE [provider |-> provider, sheet_name |-> sheet_name, items |-> items,
             id_to_index |-> [id \in {items[i].id : i \in 1..Len(rows)} |->
                                CHOOSE i \in 1..Len(rows) : items[i].id = id],
             code_to_id |-> [code \in {items[i].code : i \in 1..Len(rows)} |->
                                items[CHOOSE i \in 1..Len(rows) : items[i].code = code].id]]

\* ProviderSheet.__init__: the items, id -> row index and code -> id. The
\* loop raises at the first row whose id or code is missing or was already
\* seen in an earlier row.
ProviderSheet(provider, sheet_name, rows) ==
    LET items == [i \in 1..Len(rows) |-> ProviderItem(provider, sheet_name, rows[i])]
        fails(i) ==
            \/ items[i].id = NoId
            \/ \E j \in 1..(i - 1) : items[j].id = items[i].id
            \/ items[i].code = NoCode
            \/ \E j \in 1..(i - 1) : items[j].code = items[i].code
    IN IF \E i \in 1..Len(rows) : fails(i) THEN ValueError
       ELSE [provider |-> provider, sheet_name |-> sheet_name, items |-> items,
             id_to_index |-> [id \in {items[i].id : i \in 1..Len(rows)} |->
                                CHOOSE i \in 1..Len(rows) : items[i].id = id],
             code_to_id |-> [code \in {items[i].code : i \in 1..Len(rows)} |->
                                items[CHOOSE i \in 1..Len(rows) : items[i].code = code].id]]

Sheet_item_refs(sheet) == [i \in 1..Len(sheet.items) |-> to_item_ref(sheet.items[i])]

Sheet_get_item_by_id(sheet, id) ==
    IF id \in DOMAIN sheet.id_to_index THEN sheet.items[sheet.id_to_index[id]] ELSE None

Sheet_get_item_by_code(sheet, code) ==
    IF code \in DOMAIN sheet.code_to_id
    THEN Sheet_get_item_by_id(sheet, sheet.code_to_id[code])
    ELSE None

\* sorted(self.__sheets.values(), key=lambda x: x.sheet_name.value)
sorted_sheet_names == <<"Equipment", "Materials">>

\* ProviderWorkbook.__init__: both sheets, then the workbook-wide item_refs
\* (sheets in sorted order), id -> item ref and code -> item ref. The loop
\* raises at the first item whose id or code was already seen in the workbook.
ProviderWorkbookOf(provider, worksheets) ==
    LET sheets == [s \in SheetName |-> ProviderSheet(provider, s, worksheets[s])]
        items == sheets[sorted_sheet_names[1]].items \o sheets[sorted_sheet_names[2]].items
        fails(k) ==
            \/ \E j \in 1..(k - 1) : items[j].id = items[k].id
            \/ \E j \in 1..(k - 1) : items[j].code = items[k].code
    IN IF \E s \in SheetName : IsError(sheets[s]) THEN ValueError
       ELSE IF \E k \in 1..Len(items) : fails(k) THEN ValueError
       ELSE [provider |-> provider, sheets |-> sheets,
             item_refs |-> [k \in 1..Len(items) |-> to_item_ref(items[k])],
             id_to_item_ref |-> [id \in {items[k].id : k \in 1..Len(items)} |->
                to_item_ref(items[CHOOSE k \in 1..Len(items) : items[k].id = id])],
             code_to_item_ref |-> [code \in {items[k].code : k \in 1..Len(items)} |->
                to_item_ref(items[CHOOSE k \in 1..Len(items) : items[k].code = code])]]

\* load_workbook(PROVIDER_TO_FILE_NAME[provider]): the workbook of a provider
\* in one of the sets of spreadsheets
ProviderWorkbook(ds, provider) ==
    ProviderWorkbookOf(provider, [s \in SheetName |-> SheetRows(ds, provider, s)])

\* ProviderWorkbook.get_item_by_ref (raises when the row is missing)
Workbook_get_item_by_ref(wb, ref) ==
    LET row == Sheet_get_item_by_id(wb.sheets[ref.sheet_name], ref.id)
    IN IF row = None THEN ValueError ELSE row

Workbook_get_item_by_id(wb, id) ==
    IF id \in DOMAIN wb.id_to_item_ref
    THEN Workbook_get_item_by_ref(wb, wb.id_to_item_ref[id])
    ELSE None

\* Variant of Workbook_get_item_by_code: the code is looked up in the
\* Equipment sheet only
Workbook_get_item_by_code_EquipmentOnly(wb, code) ==
    Sheet_get_item_by_code(wb.sheets["Equipment"], code)

Workbook_get_item_by_code(wb, code) ==
    IF code \in DOMAIN wb.code_to_item_ref
    THEN Workbook_get_item_by_ref(wb, wb.code_to_item_ref[code])
    ELSE None

\* load_workbooks: one workbook per provider, for each set of spreadsheets
AllWorkbooks == [ds \in Datasets |-> [p \in Provider |-> ProviderWorkbook(ds, p)]]

-----------------------------------------------------------------------------
(* ai.py: the typed LLM response *)

MatchingItem(provider, id, code) == [provider |-> provider, id |-> id, code |-> code]

AIMatchType == {"StrongMatch", "HazyMatch", "NoMatch"}

AIResponse(type, item) == [type |-> type, item |-> item]

\* Variant of validate_match_consistency: an item with tier NoMatch passes
validate_match_consistency_MatchTiersOnly(response) ==
    ~(response.type \in {"StrongMatch", "HazyMatch"} /\ response.item = None)

\* AIResponse.validate_match_consistency: TRUE when the validator accepts
validate_match_consistency(response) ==
    /\ ~(response.type \in {"StrongMatch", "HazyMatch"} /\ response.item = None)
    /\ ~(response.type = "NoMatch" /\ response.item # None)

\* AIResponse.model_validate_json: the type field must be a member of
\* AIMatchType, then the model validator runs; TRUE when an AIResponse is made
model_validate_json(response) ==
    /\ response.type \in AIMatchType
    /\ validate_match_consistency(response)

\* max_retries of the two generation loops
max_retries == 3

\* The items an LLM reply may name
ExistingItem == MatchingItem("Haller", 1, "X100")      \* id and code of one item
KnownCodeOnly == MatchingItem("Haller", 999, "Y200")   \* unknown id, existing code
UnknownItem == MatchingItem("Haller", 999, "Z1")       \* neither exists
IdOfOneCodeOfOther == MatchingItem("Haller", 1, "Y200") \* id of one item, code of another
QueryProviderItem == MatchingItem("Gem", 56, "G56")    \* an item of the first provider that is merged
LaterProviderItem == MatchingItem("WeltmanPrinceton", 7, "W7") \* an item of the last provider

\* The JSON bodies the generation service may return: a reply of each tier
\* that resolves, one whose id and code belong to two items, replies of both
\* match tiers that do not resolve, the two shapes the validator rejects, and
\* a type that is not one of the three tiers; where the service names items
\* of any catalog (MatchingItem.provider is any member of Provider), also
\* replies that name an item of a provider other than the reference provider.
Replies ==
    (IF service = "any"
     THEN {AIResponse("StrongMatch", QueryProviderItem),
           AIResponse("HazyMatch", LaterProviderItem)}
     ELSE {}) \cup
    {AIResponse("NoMatch", None),
     AIResponse("StrongMatch", ExistingItem),
     AIResponse("HazyMatch", KnownCodeOnly),
     AIResponse("StrongMatch", IdOfOneCodeOfOther),
     AIResponse("StrongMatch", UnknownItem),
     AIResponse("HazyMatch", UnknownItem),
     AIResponse("StrongMatch", None),
     AIResponse("NoMatch", ExistingItem),
     AIResponse("PartialMatch", None)}

-----------------------------------------------------------------------------
(* merge.py: pure parts of Merge *)

CHECKPOINT_INTERVAL == 2

\* parser.add_argument('--reference-provider', ...): the option's default and
\* its choices
DefaultArgs == [reference_provider |-> ProviderValue("Haller")]
ReferenceProviderChoices == {ProviderValue(sorted_providers[k]) : k \in 1..Len(sorted_providers)}

\* main.py constructs Merge with Provider.Haller
reference_provider == "Haller"

workbook(provider) == workbooks[provider]

get_item_by_ref(item_ref) ==
    Workbook_get_item_by_ref(workbook(item_ref.provider), item_ref)

\* Variant of get_item_by_id_or_code: the code is looked up before the id
get_item_by_id_or_code_CodeFirst(provider, id, code) ==
    LET item == Workbook_get_item_by_code(workbook(provider), code)
    IN IF item = None THEN Workbook_get_item_by_id(workbook(provider), id) ELSE item

get_item_by_id_or_code(provider, id, code) ==
    LET item == Workbook_get_item_by_id(workbook(provider), id)
    IN IF item = None THEN Workbook_get_item_by_code(workbook(provider), code) ELSE item

\* [self.reference_provider] + [p for p in sorted_providers if p != self.reference_provider]
ordered_providers ==
    <<reference_provider>> \o SelectSeq(sorted_providers, LAMBDA p : p # reference_provider)

ProviderFilter(provider) == [kind |-> "Provider", provider |-> provider]
ItemFilter(item_ref) == [kind |-> "ItemReference", ref |-> item_ref]

\* The NoMatch queries of one provider, in ledger order (the inner loop of
\* __get_reference_filters)
NoMatchFilters(provider, merges) ==
    LET hits == SelectSeq(merges, LAMBDA m : IsNoMatch(m) /\ m.query.provider = provider)
    IN [i \in 1..Len(hits) |-> ItemFilter(hits[i].query)]

get_reference_filters(current_provider, merges) ==
    LET RECURSIVE Loop(_, _)
        Loop(k, ref_filters) ==
            IF k > Len(ordered_providers) THEN ref_filters
            ELSE LET provider == ordered_providers[k]
                 IN IF provider = current_provider THEN ref_filters
                    ELSE IF provider = reference_provider
                         THEN Append(ref_filters, ProviderFilter(provider))
                         ELSE Loop(k + 1, ref_filters \o NoMatchFilters(provider, merges))
    IN Loop(1, <<>>)

\* Variant of evaluate_llm_match: the proposed id is taken as it is
evaluate_llm_match_Unchecked(item, match_result) ==
    IF match_result.type = "NoMatch" THEN NoMatch(to_item_ref(item))
    ELSE LET match == ItemReference(match_result.item.provider, item.sheet_name,
                                    match_result.item.id)
         IN IF match_result.type = "StrongMatch"
            THEN StrongLLMMatch(to_item_ref(item), match)
            ELSE HazyLLMMatch(to_item_ref(item), match)

\* Variant of evaluate_llm_match: every proposal that resolves is a strong match
evaluate_llm_match_AlwaysStrong(item, match_result) ==
    IF match_result.type = "NoMatch" THEN NoMatch(to_item_ref(item))
    ELSE LET match_item == get_item_by_id_or_code(match_result.item.provider,
                                match_result.item.id, match_result.item.code)
         IN IF match_item = None THEN None
            ELSE StrongLLMMatch(to_item_ref(item), to_item_ref(match_item))

\* __evaluate_llm_match: a merge, or None when the proposal does not resolve
evaluate_llm_match(item, match_result) ==
    IF match_result.type = "NoMatch" THEN NoMatch(to_item_ref(item))
    ELSE LET match_item == get_item_by_id_or_code(match_result.item.provider,
                                match_result.item.id, match_result.item.code)
         IN IF match_item = None THEN None
            ELSE IF match_result.type = "StrongMatch"
                 THEN StrongLLMMatch(to_item_ref(item), to_item_ref(match_item))
                 ELSE HazyLLMMatch(to_item_ref(item), to_item_ref(match_item))

\* index_merges: query -> merge (the last record of a query wins) and
\* match -> list of merges
index_merges(merges) ==
    LET queries == {merges[i].query : i \in 1..Len(merges)}
        matches == {merges[i].match : i \in {j \in 1..Len(merges) : ~IsNoMatch(merges[j])}}
        last(q) == CHOOSE i \in 1..Len(merges) :
                      /\ merges[i].query = q
                      /\ \A j \in 1..Len(merges) : merges[j].query = q => j <= i
    IN [query_to_merge |-> [q \in queries |-> merges[last(q)]],
        match_to_merges |-> [m \in matches |->
            SelectSeq(merges, LAMBDA x : ~IsNoMatch(x) /\ x.match = m)]]

\* __load_prior_merges: the query -> merge dict of the checkpoint file
load_prior_merges(file) ==
    IF ~file_exists(file) THEN [q \in {} |-> None]
    ELSE index_merges(load_merges_from_json(file).returned).query_to_merge

\* Variant of coalesce_merges: only the items with no record are anchors
coalesce_merges_OnlyUnqueried(merges) ==
    LET ix == index_merges(merges)
        RECURSIVE AllRefs(_)
        AllRefs(k) == IF k > Len(ordered_providers) THEN <<>>
                      ELSE workbook(ordered_providers[k]).item_refs \o AllRefs(k + 1)
        merged_items(ref) == IF ref \in DOMAIN ix.match_to_merges
                             THEN ix.match_to_merges[ref] ELSE <<>>
        anchors == SelectSeq(AllRefs(1), LAMBDA ref : ref \notin DOMAIN ix.query_to_merge)
    IN [i \in 1..Len(anchors) |-> <<anchors[i], merged_items(anchors[i])>>]

\* __coalesce_merges: (anchor, merges that match it) for every item that has
\* no record or a NoMatch record, reference provider first
coalesce_merges(merges) ==
    LET ix == index_merges(merges)
        RECURSIVE AllRefs(_)
        AllRefs(k) == IF k > Len(ordered_providers) THEN <<>>
                      ELSE workbook(ordered_providers[k]).item_refs \o AllRefs(k + 1)
        merged_items(ref) == IF ref \in DOMAIN ix.match_to_merges
                             THEN ix.match_to_merges[ref] ELSE <<>>
        anchors == SelectSeq(AllRefs(1), LAMBDA ref :
                        \/ ref \notin DOMAIN ix.query_to_merge
                        \/ IsNoMatch(ix.query_to_merge[ref]))
    IN [i \in 1..Len(anchors) |-> <<anchors[i], merged_items(anchors[i])>>]

\* group_merges_by_provider: a defaultdict(list) keyed by the query's provider
group_merges_by_provider(merges) ==
    [p \in Provider |-> SelectSeq(merges, LAMBDA m : m.query.provider = p)]

\* ProviderItem.to_item_output: the cell of the report (id and code stand
\* for the columns copied from the spreadsheet row)
to_item_output(it, match_type) == [match_type |-> match_type, id |-> it.id, code |-> it.code]

\* Variant of AnchorRows: no row for an anchor that nothing matches
AnchorRows_NoEmptyRow(base_ref, merges) ==
    LET merges_by_provider == group_merges_by_provider(merges)
        lens == {Len(merges_by_provider[p]) : p \in Provider \ {base_ref.provider}}
        max_merges_per_provider == CHOOSE n \in lens : \A l \in lens : l <= n
        cell(provider, merge_index) ==
            IF provider = base_ref.provider
            THEN to_item_output(get_item_by_ref(base_ref), NoType)
            ELSE IF merge_index < Len(merges_by_provider[provider])
            THEN LET merge_for_provider == merges_by_provider[provider][merge_index + 1]
                 IN to_item_output(get_item_by_ref(merge_for_provider.query),
                                   merge_for_provider.type)
            ELSE None
    IN [r \in 1..max_merges_per_provider |->
            [c \in 1..Len(ordered_providers) |-> cell(ordered_providers[c], r - 1)]]

\* Variant of AnchorRows: the column of the anchor's provider comes first
AnchorRows_AnchorFirst(base_ref, merges) ==
    LET merges_by_provider == group_merges_by_provider(merges)
        columns == <<base_ref.provider>>
                       \o SelectSeq(sorted_providers, LAMBDA p : p # base_ref.provider)
        lens == {Len(merges_by_provider[p]) : p \in Provider \ {base_ref.provider}} \cup {1}
        max_merges_per_provider == CHOOSE n \in lens : \A l \in lens : l <= n
        cell(provider, merge_index) ==
            IF provider = base_ref.provider
            THEN to_item_output(get_item_by_ref(base_ref), NoType)
            ELSE IF merge_index < Len(merges_by_provider[provider])
            THEN LET merge_for_provider == merges_by_provider[provider][merge_index + 1]
                 IN to_item_output(get_item_by_ref(merge_for_provider.query),
                                   merge_for_provider.type)
            ELSE None
    IN [r \in 1..max_merges_per_provider |->
            [c \in 1..Len(columns) |-> cell(columns[c], r - 1)]]

\* The rows __to_output_data makes for one anchor
AnchorRows(base_ref, merges) ==
    LET merges_by_provider == group_merges_by_provider(merges)
        lens == {Len(merges_by_provider[p]) : p \in Provider \ {base_ref.provider}} \cup {1}
        max_merges_per_provider == CHOOSE n \in lens : \A l \in lens : l <= n
        cell(provider, merge_index) ==
            IF provider = base_ref.provider
            THEN to_item_output(get_item_by_ref(base_ref), NoType)
            ELSE IF merge_index < Len(merges_by_provider[provider])
            THEN LET merge_for_provider == merges_by_provider[provider][merge_index + 1]
                 IN to_item_output(get_item_by_ref(merge_for_provider.query),
                                   merge_for_provider.type)
            ELSE None
    IN [r \in 1..max_merges_per_provider |->
            [c \in 1..Len(ordered_providers) |-> cell(ordered_providers[c], r - 1)]]

\* __to_output_data: the rows of every anchor, in the order of the anchors
to_output_data(coalesced_merges) ==
    LET RECURSIVE Loop(_)
        Loop(k) == IF k > Len(coalesced_merges) THEN <<>>
                   ELSE AnchorRows(coalesced_merges[k][1], coalesced_merges[k][2])
                            \o Loop(k + 1)
    IN Loop(1)

-----------------------------------------------------------------------------
(* vector.py: the relevance filter *)

AllItemRefs == UNION {{workbook(p).item_refs[i] : i \in 1..Len(workbook(p).item_refs)} : p \in Provider}

\* The item references the similarity search may return for a list of filters:
\* the stored items that satisfy one of the filters ("should").
InScope(filters) ==
    {r \in AllItemRefs : \E k \in 1..Len(filters) :
        \/ filters[k].kind = "Provider" /\ filters[k].provider = r.provider
        \/ /\ filters[k].kind = "ItemReference"
           /\ filters[k].ref.provider = r.provider
           /\ filters[k].ref.id = r.id}

-----------------------------------------------------------------------------
(* State of one invocation *)

\* The locals of the loop body of __merge_all and of the calls it makes for
\* the current item, with counts of what was done for that item.
NoCur ==
    [item_ref |-> None,        \* item_ref of the enumerate loop
     source |-> "none",        \* "prior", "exact" or "llm": where its record came from
     code_lookups |-> 0,       \* reference_workbook.get_item_by_code calls
     embeddings |-> 0,         \* fetch_embedding requests
     record |-> "unread",      \* what get_record gave: "absent", "no_vector", "found"
     generated |-> 0,          \* embeddings requested from the embedding model
     searches |-> 0,           \* similarity searches
     relevant_items |-> {},    \* result of get_relevant_items
     proposals |-> 0,          \* calls of generate_match_response_advanced
     followups |-> 0,          \* calls of generate_followup_match_response
     attempt |-> 0,            \* loop variable of the generation call in progress
     rate_limited |-> 0,       \* 429 replies the call in progress has got
     first |-> None,           \* match_result of the first call
     follow |-> None,          \* match_result of the follow-up call
     rejected |-> None,        \* the reply model_validate_json raised for
     raised |-> ""]            \* exception raised by __merge_item

\* warning, failed, completed: the requests that were posted, by title;
\* signals: the item counts of the "Script Completed" messages the run passed
\* to send_push_notification
NoPushes == [warning |-> FALSE, failed |-> 0, completed |-> 0, signals |-> <<>>]

\* Merge.merge has not built or written anything
NoReport == [coalesced_merges |-> <<>>, output_data |-> <<>>,
             table |-> [header |-> <<>>, rows |-> <<>>], written |-> FALSE]

Init ==
    /\ workbooks \in {AllWorkbooks[ds] : ds \in Datasets}
    /\ args = DefaultArgs
    /\ service = "reference"
    /\ run = 1
    /\ pc = "start"
    /\ creds \in BOOLEAN
    /\ checkpoint = NoFile
    /\ prior_merge_lookup = [q \in {} |-> None]
    /\ item_merges = <<>>
    /\ pidx = 1
    /\ idx = 0
    /\ reference_filters = <<>>
    /\ cur = NoCur
    /\ error = ""
    /\ pushes = NoPushes
    /\ revisit = <<>>
    /\ remote = {}
    /\ prev = [status |-> "none", item_merges |-> <<>>]
    /\ report = NoReport
    /\ arg = None
    /\ result = None

\* The value of an environment variable (os.getenv): None when it is not
\* set, else its string
EnvValue(s) == [value |-> s]

\* "not token": None and the empty string are falsy
Falsy(v) == v = None \/ v.value = ""

\* Variant of send_push_notification: only the token is looked at
send_push_notification_TokenOnly(token, user) ==
    IF Falsy(token) THEN {"noop"} ELSE {"posted", "raised"}

\* What send_push_notification can do: return at once when a credential is
\* missing, post the message, or fail in requests.post / response.json().
send_push_notification(token, user) ==
    IF Falsy(token) \/ Falsy(user) THEN {"noop"} ELSE {"posted", "raised"}

\* The calls of a run: creds tells whether PUSHOVER_TOKEN and PUSHOVER_USER
\* are both set in the environment of the script
PushOutcomes ==
    IF creds THEN send_push_notification(EnvValue("token"), EnvValue("user"))
    ELSE send_push_notification(None, None)

current_provider == sorted_providers[pidx]
item_refs == workbook(current_provider).item_refs
item_ref == item_refs[idx + 1]
item == get_item_by_ref(item_ref)

-----------------------------------------------------------------------------
(* Merge.__merge_all *)

\* [prior_merge_lookup, _] = self.__load_prior_merges(); item_merges = []
LoadPriorMerges ==
    /\ pc = "start"
    /\ prior_merge_lookup' = load_prior_merges(checkpoint)
    /\ item_merges' = <<>>
    /\ pidx' = 1
    /\ pc' = "provider"
    /\ UNCHANGED <<workbooks, args, service, report, arg, result, run, creds, checkpoint, idx, reference_filters, cur, error,
                   pushes, revisit, remote, prev>>

\* for provider in sorted_providers: the reference provider is skipped
SkipReferenceProvider ==
    /\ pc = "provider"
    /\ pidx <= Len(sorted_providers)
    /\ current_provider = reference_provider
    /\ pidx' = pidx + 1
    /\ UNCHANGED <<workbooks, args, service, report, arg, result, run, pc, creds, checkpoint, prior_merge_lookup, item_merges,
                   idx, reference_filters, cur, error, pushes, revisit, remote, prev>>

\* Variant of StartProvider: the reference provider is merged like the others
StartProvider_ReferenceToo ==
    /\ pc = "provider"
    /\ pidx <= Len(sorted_providers)
    /\ reference_filters' = get_reference_filters(current_provider, item_merges)
    /\ idx' = 0
    /\ pc' = "item"
    /\ UNCHANGED <<workbooks, args, service, report, arg, result, run, creds, checkpoint, prior_merge_lookup, item_merges,
                   pidx, cur, error, pushes, revisit, remote, prev>>

\* reference_filters = self.__get_reference_filters(provider, item_merges)
StartProvider ==
    /\ pc = "provider"
    /\ pidx <= Len(sorted_providers)
    /\ current_provider # reference_provider
    /\ reference_filters' = get_reference_filters(current_provider, item_merges)
    /\ idx' = 0
    /\ pc' = "item"
    /\ UNCHANGED <<workbooks, args, service, report, arg, result, run, creds, checkpoint, prior_merge_lookup, item_merges,
                   pidx, cur, error, pushes, revisit, remote, prev>>

\* Variant of LoopHead: the checkpoint is written one index later than the
\* interval says
LoopHead_LongerInterval ==
    /\ pc = "item"
    /\ idx < Len(item_refs)
    /\ checkpoint' = IF idx % (CHECKPOINT_INTERVAL + 1) = 0
                     THEN save_merges_to_json(item_merges)
                     ELSE checkpoint
    /\ cur' = [NoCur EXCEPT !.item_ref = item_ref]
    /\ pc' = "body"
    /\ UNCHANGED <<workbooks, args, service, report, arg, result, run, creds, prior_merge_lookup, item_merges, pidx, idx,
                   reference_filters, error, pushes, revisit, remote, prev>>

\* for idx, item_ref in enumerate(workbook.item_refs): the checkpoint of
\* every CHECKPOINT_INTERVAL-th index, before the item is looked at
LoopHead ==
    /\ pc = "item"
    /\ idx < Len(item_refs)
    /\ checkpoint' = IF idx % CHECKPOINT_INTERVAL = 0
                     THEN save_merges_to_json(item_merges)
                     ELSE checkpoint
    /\ cur' = [NoCur EXCEPT !.item_ref = item_ref]
    /\ pc' = "body"
    /\ UNCHANGED <<workbooks, args, service, report, arg, result, run, creds, prior_merge_lookup, item_merges, pidx, idx,
                   reference_filters, error, pushes, revisit, remote, prev>>

\* Variant of ProviderExhausted: the loop ends one item early
ProviderExhausted_OneEarly ==
    /\ pc = "item"
    /\ idx >= Len(item_refs) - 1
    /\ pidx' = pidx + 1
    /\ pc' = "provider"
    /\ UNCHANGED <<workbooks, args, service, report, arg, result, run, creds, checkpoint, prior_merge_lookup, item_merges,
                   idx, reference_filters, cur, error, pushes, revisit, remote, prev>>

\* the item loop of a provider is exhausted
ProviderExhausted ==
    /\ pc = "item"
    /\ idx >= Len(item_refs)
    /\ pidx' = pidx + 1
    /\ pc' = "provider"
    /\ UNCHANGED <<workbooks, args, service, report, arg, result, run, creds, checkpoint, prior_merge_lookup, item_merges,
                   idx, reference_filters, cur, error, pushes, revisit, remote, prev>>

\* Variant of CopyPrior: the record is built anew instead of being copied
CopyPrior_Rebuilt ==
    /\ pc = "body"
    /\ item_ref \in DOMAIN prior_merge_lookup
    /\ item_merges' = Append(item_merges, NoMatch(item_ref))
    /\ cur' = [cur EXCEPT !.source = "prior"]
    /\ idx' = idx + 1
    /\ pc' = "item"
    /\ UNCHANGED <<workbooks, args, service, report, arg, result, run, creds, checkpoint, prior_merge_lookup, pidx,
                   reference_filters, error, pushes, revisit, remote, prev>>

\* if item_ref in prior_merge_lookup: append the prior record; continue
CopyPrior ==
    /\ pc = "body"
    /\ item_ref \in DOMAIN prior_merge_lookup
    /\ item_merges' = Append(item_merges, prior_merge_lookup[item_ref])
    /\ cur' = [cur EXCEPT !.source = "prior"]
    /\ idx' = idx + 1
    /\ pc' = "item"
    /\ UNCHANGED <<workbooks, args, service, report, arg, result, run, creds, checkpoint, prior_merge_lookup, pidx,
                   reference_filters, error, pushes, revisit, remote, prev>>

\* Variant of ExactCodeStage: the code is looked up in the item's own catalog
ExactCodeStage_OwnCatalog ==
    /\ pc = "body"
    /\ item_ref \notin DOMAIN prior_merge_lookup
    /\ LET matching_code_item ==
               Workbook_get_item_by_code(workbook(item.provider), item.code)
       IN IF matching_code_item # None
          THEN /\ item_merges' = Append(item_merges,
                       ExactCodeMatch(to_item_ref(item), to_item_ref(matching_code_item)))
               /\ cur' = [cur EXCEPT !.source = "exact", !.code_lookups = @ + 1]
               /\ idx' = idx + 1
               /\ pc' = "item"
          ELSE /\ cur' = [cur EXCEPT !.source = "llm", !.code_lookups = @ + 1]
               /\ pc' = "relevant"
               /\ UNCHANGED <<item_merges, idx>>
    /\ UNCHANGED <<workbooks, args, service, report, arg, result, run, creds, checkpoint, prior_merge_lookup, pidx,
                   reference_filters, error, pushes, revisit, remote, prev>>

\* __merge_item: the exact code stage; a miss goes on to __match_with_llm
ExactCodeStage ==
    /\ pc = "body"
    /\ item_ref \notin DOMAIN prior_merge_lookup
    /\ LET matching_code_item ==
               Workbook_get_item_by_code(workbook(reference_provider), item.code)
       IN IF matching_code_item # None
          THEN /\ item_merges' = Append(item_merges,
                       ExactCodeMatch(to_item_ref(item), to_item_ref(matching_code_item)))
               /\ cur' = [cur EXCEPT !.source = "exact", !.code_lookups = @ + 1]
               /\ idx' = idx + 1
               /\ pc' = "item"
          ELSE /\ cur' = [cur EXCEPT !.source = "llm", !.code_lookups = @ + 1]
               /\ pc' = "relevant"
               /\ UNCHANGED <<item_merges, idx>>
    /\ UNCHANGED <<workbooks, args, service, report, arg, result, run, creds, checkpoint, prior_merge_lookup, pidx,
                   reference_filters, error, pushes, revisit, remote, prev>>

-----------------------------------------------------------------------------
(* Merge.__match_with_llm, with vector.py and ai.py *)

\* An exception leaves __merge_item (the frame of the generation call is
\* gone): it is caught at "except Exception as e" of __merge_all.
Raise(e, c) ==
    /\ cur' = [c EXCEPT !.raised = e, !.attempt = 0, !.rate_limited = 0]
    /\ error' = e
    /\ pc' = "flush"
    /\ UNCHANGED <<item_merges, idx, revisit>>

\* Variant of FetchEmbeddingMissing: the missing embedding is generated and
\* the search is made with it
FetchEmbeddingMissing_Regenerated ==
    /\ pc = "relevant"
    /\ remote' = remote \cup {item_ref}
    /\ \E missing \in {"absent", "no_vector"} :
          cur' = [cur EXCEPT !.embeddings = @ + 1, !.record = missing,
                             !.generated = @ + 1, !.searches = @ + 1,
                             !.relevant_items = InScope(reference_filters),
                             !.proposals = @ + 1, !.attempt = 0, !.rate_limited = 0]
    /\ pc' = "first"
    /\ UNCHANGED <<workbooks, args, service, report, arg, result, run, creds, checkpoint, prior_merge_lookup,
                   item_merges, pidx, idx, reference_filters, error, pushes, revisit, prev>>

\* fetch_embedding finds no record, or a record without a vector, for the
\* query item: it raises
FetchEmbeddingMissing ==
    /\ pc = "relevant"
    /\ remote' = remote \cup {item_ref}
    /\ \E missing \in {"absent", "no_vector"} :
          Raise("NoEmbedding", [cur EXCEPT !.embeddings = @ + 1, !.record = missing])
    /\ UNCHANGED <<workbooks, args, service, report, arg, result, run, creds, checkpoint, prior_merge_lookup, pidx,
                   reference_filters, pushes, prev>>

\* get_relevant_items returns; generate_match_response_advanced is entered
GetRelevantItems ==
    /\ pc = "relevant"
    /\ remote' = remote \cup {item_ref}
    /\ cur' = [cur EXCEPT !.embeddings = @ + 1, !.record = "found", !.searches = @ + 1,
                          !.relevant_items = InScope(reference_filters),
                          !.proposals = @ + 1, !.attempt = 0, !.rate_limited = 0]
    /\ pc' = "first"
    /\ UNCHANGED <<workbooks, args, service, report, arg, result, run, creds, checkpoint, prior_merge_lookup, item_merges, pidx,
                   idx, reference_filters, error, pushes, revisit, prev>>

\* generate_match_response_advanced returned match_result: lines 111-116 of
\* merge.py, up to the call of the follow-up
FirstReturned(match_result) ==
    LET merge == evaluate_llm_match(item, match_result)
    IN IF merge # None
       THEN /\ item_merges' = Append(item_merges, merge)
            /\ cur' = [cur EXCEPT !.first = match_result, !.attempt = 0, !.rate_limited = 0]
            /\ idx' = idx + 1
            /\ pc' = "item"
            /\ UNCHANGED error
       ELSE /\ cur' = [cur EXCEPT !.first = match_result, !.followups = @ + 1,
                                  !.attempt = 0, !.rate_limited = 0]
            /\ pc' = "followup"
            /\ UNCHANGED <<item_merges, idx, error>>

\* "continue" in the loop of generate_match_response_advanced; when the loop
\* runs out, the item goes to the revisit list and the result is a NoMatch
FirstContinue(c) ==
    IF cur.attempt + 1 <= max_retries
    THEN /\ cur' = [c EXCEPT !.attempt = @ + 1]
         /\ UNCHANGED <<pc, item_merges, idx, revisit, error>>
    ELSE /\ revisit' = add_to_revisit_list(revisit, to_item_ref(item))
         /\ FirstReturned(AIResponse("NoMatch", None))

\* the request fails with ClientError 429
FirstRateLimited ==
    /\ pc = "first"
    /\ cur.attempt <= max_retries
    /\ remote' = remote \cup {item_ref}
    /\ IF cur.attempt < max_retries
       THEN FirstContinue([cur EXCEPT !.rate_limited = @ + 1])
       ELSE Raise("RateLimited", cur)
    /\ UNCHANGED <<workbooks, args, service, report, arg, result, run, creds, checkpoint, prior_merge_lookup, pidx,
                   reference_filters, pushes, prev>>

\* the request fails with another ClientError or another exception
FirstClientError ==
    /\ pc = "first"
    /\ cur.attempt <= max_retries
    /\ remote' = remote \cup {item_ref}
    /\ Raise("ClientError", cur)
    /\ UNCHANGED <<workbooks, args, service, report, arg, result, run, creds, checkpoint, prior_merge_lookup, pidx,
                   reference_filters, pushes, prev>>

\* response.text is None: a warning is pushed, then retry or give up
FirstNoneResponse ==
    /\ pc = "first"
    /\ cur.attempt <= max_retries
    /\ remote' = remote \cup {item_ref}
    /\ \E outcome \in PushOutcomes :
        /\ pushes' = IF outcome = "noop" THEN pushes ELSE [pushes EXCEPT !.warning = TRUE]
        /\ IF outcome = "raised" THEN Raise("NotificationError", cur)
           ELSE IF cur.attempt < max_retries THEN FirstContinue(cur)
           ELSE Raise("NoneResponse", cur)
    /\ UNCHANGED <<workbooks, args, service, report, arg, result, run, creds, checkpoint, prior_merge_lookup, pidx,
                   reference_filters, prev>>

\* the request returns a JSON body: AIResponse.model_validate_json
FirstResponse ==
    /\ pc = "first"
    /\ cur.attempt <= max_retries
    /\ remote' = remote \cup {item_ref}
    /\ \E reply \in Replies :
        IF model_validate_json(reply)
        THEN FirstReturned(reply) /\ UNCHANGED revisit
        ELSE Raise("ValidationError", [cur EXCEPT !.rejected = reply])
    /\ UNCHANGED <<workbooks, args, service, report, arg, result, run, creds, checkpoint, prior_merge_lookup, pidx,
                   reference_filters, pushes, prev>>

\* "continue" in the loop of generate_followup_match_response; when the loop
\* runs out the function returns None, which __evaluate_llm_match cannot read
FollowupContinue(c) ==
    IF cur.attempt + 1 <= max_retries
    THEN /\ cur' = [c EXCEPT !.attempt = @ + 1]
         /\ UNCHANGED <<pc, item_merges, idx, revisit, error>>
    ELSE Raise("AttributeError", cur)

\* the follow-up request fails with ClientError 429
FollowupRateLimited ==
    /\ pc = "followup"
    /\ cur.attempt <= max_retries
    /\ remote' = remote \cup {item_ref}
    /\ IF cur.attempt < max_retries
       THEN FollowupContinue([cur EXCEPT !.rate_limited = @ + 1])
       ELSE Raise("RateLimited", cur)
    /\ UNCHANGED <<workbooks, args, service, report, arg, result, run, creds, checkpoint, prior_merge_lookup, pidx,
                   reference_filters, pushes, prev>>

\* another ClientError or another exception: re-raised at once
FollowupClientError ==
    /\ pc = "followup"
    /\ cur.attempt <= max_retries
    /\ remote' = remote \cup {item_ref}
    /\ Raise("ClientError", cur)
    /\ UNCHANGED <<workbooks, args, service, report, arg, result, run, creds, checkpoint, prior_merge_lookup, pidx,
                   reference_filters, pushes, prev>>

\* response.text is None: model_validate_json(None) raises
FollowupNoneResponse ==
    /\ pc = "followup"
    /\ cur.attempt <= max_retries
    /\ remote' = remote \cup {item_ref}
    /\ Raise("ValidationError", cur)
    /\ UNCHANGED <<workbooks, args, service, report, arg, result, run, creds, checkpoint, prior_merge_lookup, pidx,
                   reference_filters, pushes, prev>>

\* Variant of FollowupResponse: the record keeps the tier of the first proposal
FollowupResponse_FirstTier ==
    /\ pc = "followup"
    /\ cur.attempt <= max_retries
    /\ remote' = remote \cup {item_ref}
    /\ \E reply \in Replies :
        LET kept == IF reply.type = "NoMatch" THEN reply
                    ELSE AIResponse(cur.first.type, reply.item)
            merge == evaluate_llm_match(item, kept)
        IN IF ~model_validate_json(reply)
           THEN Raise("ValidationError", [cur EXCEPT !.rejected = reply])
           ELSE IF merge # None
           THEN /\ item_merges' = Append(item_merges, merge)
                /\ cur' = [cur EXCEPT !.follow = reply, !.attempt = 0, !.rate_limited = 0]
                /\ idx' = idx + 1
                /\ pc' = "item"
                /\ UNCHANGED <<error, revisit>>
           ELSE Raise("NoMatchFound", [cur EXCEPT !.follow = reply])
    /\ UNCHANGED <<workbooks, args, service, report, arg, result, run, creds, checkpoint, prior_merge_lookup, pidx,
                   reference_filters, pushes, prev>>

\* the follow-up returns a JSON body: lines 117-121 of merge.py
FollowupResponse ==
    /\ pc = "followup"
    /\ cur.attempt <= max_retries
    /\ remote' = remote \cup {item_ref}
    /\ \E reply \in Replies :
        LET merge == evaluate_llm_match(item, reply)
        IN IF ~model_validate_json(reply)
           THEN Raise("ValidationError", [cur EXCEPT !.rejected = reply])
           ELSE IF merge # None
           THEN /\ item_merges' = Append(item_merges, merge)
                /\ cur' = [cur EXCEPT !.follow = reply, !.attempt = 0, !.rate_limited = 0]
                /\ idx' = idx + 1
                /\ pc' = "item"
                /\ UNCHANGED <<error, revisit>>
           ELSE Raise("NoMatchFound", [cur EXCEPT !.follow = reply])
    /\ UNCHANGED <<workbooks, args, service, report, arg, result, run, creds, checkpoint, prior_merge_lookup, pidx,
                   reference_filters, pushes, prev>>

-----------------------------------------------------------------------------
(* Merge.__merge_all: the exception handler and the end of the run *)

\* except Exception as e: self.__save_checkpoint(item_merges)
FatalCheckpoint ==
    /\ pc = "flush"
    /\ checkpoint' = save_merges_to_json(item_merges)
    /\ pc' = "notify_failed"
    /\ UNCHANGED <<workbooks, args, service, report, arg, result, run, creds, prior_merge_lookup, item_merges, pidx, idx,
                   reference_filters, cur, error, pushes, revisit, remote, prev>>

\* send_push_notification("Script Failed", str(e)); an exception of the
\* notification leaves the handler in place of e
NotifyFailed ==
    /\ pc = "notify_failed"
    /\ \E outcome \in PushOutcomes :
        /\ pushes' = IF outcome = "noop" THEN pushes ELSE [pushes EXCEPT !.failed = @ + 1]
        /\ IF outcome = "raised"
           THEN error' = "NotificationError" /\ pc' = "failed"
           ELSE pc' = "raise" /\ UNCHANGED error
    /\ UNCHANGED <<workbooks, args, service, report, arg, result, run, creds, checkpoint, prior_merge_lookup, item_merges, pidx,
                   idx, reference_filters, cur, revisit, remote, prev>>

\* raise e
Reraise ==
    /\ pc = "raise"
    /\ pc' = "failed"
    /\ UNCHANGED <<workbooks, args, service, report, arg, result, run, creds, checkpoint, prior_merge_lookup, item_merges, pidx,
                   idx, reference_filters, cur, error, pushes, revisit, remote, prev>>

\* the provider loop is exhausted
AllProvidersDone ==
    /\ pc = "provider"
    /\ pidx > Len(sorted_providers)
    /\ pc' = "notify_done"
    /\ UNCHANGED <<workbooks, args, service, report, arg, result, run, creds, checkpoint, prior_merge_lookup, item_merges, pidx,
                   idx, reference_filters, cur, error, pushes, revisit, remote, prev>>

\* send_push_notification("Script Completed", ...); return item_merges
NotifyCompleted ==
    /\ pc = "notify_done"
    /\ \E outcome \in PushOutcomes :
        /\ pushes' = [pushes EXCEPT
                         !.completed = IF outcome = "noop" THEN @ ELSE @ + 1,
                         !.signals = Append(@, Len(item_merges))]
        /\ IF outcome = "raised"
           THEN error' = "NotificationError" /\ pc' = "failed"
           ELSE pc' = "done" /\ UNCHANGED error
    /\ UNCHANGED <<workbooks, args, service, report, arg, result, run, creds, checkpoint, prior_merge_lookup, item_merges, pidx,
                   idx, reference_filters, cur, revisit, remote, prev>>

\* Variant of WriteReport: the report is also written after __merge_all raised
WriteReport_AfterFailure ==
    /\ pc \in {"done", "failed"}
    /\ LET coalesced_merges == coalesce_merges(item_merges)
           output_data == to_output_data(coalesced_merges)
       IN report' = [coalesced_merges |-> coalesced_merges,
                     output_data |-> output_data,
                     table |-> output_merge_table(output_data),
                     written |-> TRUE]
    /\ pc' = "reported"
    /\ UNCHANGED <<workbooks, args, service, arg, result, run, creds, checkpoint, prior_merge_lookup,
                   item_merges, pidx, idx, reference_filters, cur, error, pushes,
                   revisit, remote, prev>>

\* Merge.merge after __merge_all returned: coalesce, build the rows, write
\* the output file
WriteReport ==
    /\ pc = "done"
    /\ LET coalesced_merges == coalesce_merges(item_merges)
           output_data == to_output_data(coalesced_merges)
       IN report' = [coalesced_merges |-> coalesced_merges,
                     output_data |-> output_data,
                     table |-> output_merge_table(output_data),
                     written |-> TRUE]
    /\ pc' = "reported"
    /\ UNCHANGED <<workbooks, args, service, arg, result, run, creds, checkpoint, prior_merge_lookup,
                   item_merges, pidx, idx, reference_filters, cur, error, pushes,
                   revisit, remote, prev>>

\* The script is invoked again on the same spreadsheets; the checkpoint file
\* and the revisit file are what the previous invocation left on disk.
Restart ==
    /\ pc \in {"reported", "failed"}
    /\ run < MaxRuns
    /\ run' = run + 1
    /\ prev' = [status |-> IF pc = "reported" THEN "done" ELSE "failed",
                item_merges |-> item_merges]
    /\ report' = NoReport
    /\ pc' = "start"
    /\ prior_merge_lookup' = [q \in {} |-> None]
    /\ item_merges' = <<>>
    /\ pidx' = 1
    /\ idx' = 0
    /\ reference_filters' = <<>>
    /\ cur' = NoCur
    /\ error' = ""
    /\ pushes' = NoPushes
    /\ remote' = {}
    /\ UNCHANGED <<workbooks, args, service, arg, result, creds, checkpoint, revisit>>

Next ==
    \/ LoadPriorMerges
    \/ SkipReferenceProvider
    \/ StartProvider
    \/ LoopHead
    \/ ProviderExhausted
    \/ CopyPrior
    \/ ExactCodeStage
    \/ FetchEmbeddingMissing
    \/ GetRelevantItems
    \/ FirstRateLimited
    \/ FirstClientError
    \/ FirstNoneResponse
    \/ FirstResponse
    \/ FollowupRateLimited
    \/ FollowupClientError
    \/ FollowupNoneResponse
    \/ FollowupResponse
    \/ FatalCheckpoint
    \/ NotifyFailed
    \/ Reraise
    \/ AllProvidersDone
    \/ NotifyCompleted
    \/ WriteReport
    \/ Restart

Spec == Init /\ [][Next]_vars

\* The script invoked with each choice of --reference-provider, without
\* notification credentials, on one set of spreadsheets
InitCli ==
    /\ workbooks = AllWorkbooks["B"]
    /\ args \in [reference_provider : ReferenceProviderChoices]
    /\ service = "reference"
    /\ run = 1
    /\ pc = "start"
    /\ creds = FALSE
    /\ checkpoint = NoFile
    /\ prior_merge_lookup = [q \in {} |-> None]
    /\ item_merges = <<>>
    /\ pidx = 1
    /\ idx = 0
    /\ reference_filters = <<>>
    /\ cur = NoCur
    /\ error = ""
    /\ pushes = NoPushes
    /\ revisit = <<>>
    /\ remote = {}
    /\ prev = [status |-> "none", item_merges |-> <<>>]
    /\ report = NoReport
    /\ arg = None
    /\ result = None

SpecCli == InitCli /\ [][Next]_vars

\* A first invocation in which the generation service also names items of
\* catalogs other than the reference provider's
InitProposals ==
    /\ workbooks = AllWorkbooks["B"]
    /\ args = DefaultArgs
    /\ service = "any"
    /\ run = 1
    /\ pc = "start"
    /\ creds = FALSE
    /\ checkpoint = NoFile
    /\ prior_merge_lookup = [q \in {} |-> None]
    /\ item_merges = <<>>
    /\ pidx = 1
    /\ idx = 0
    /\ reference_filters = <<>>
    /\ cur = NoCur
    /\ error = ""
    /\ pushes = NoPushes
    /\ revisit = <<>>
    /\ remote = {}
    /\ prev = [status |-> "none", item_merges |-> <<>>]
    /\ report = NoReport
    /\ arg = None
    /\ result = None

SpecProposals == InitProposals /\ [][Next]_vars

-----------------------------------------------------------------------------
(* The checkpoint serialization and the catalog index on their own: each is
   called on inputs drawn from bounded sets, outside a run of the script *)

\* Everything but pc, checkpoint, arg and result
merge_vars == <<workbooks, args, service, run, creds, prior_merge_lookup, item_merges, pidx, idx,
                reference_filters, cur, error, pushes, revisit, remote, prev, report>>

\* No run of the script is in progress
NoRun ==
    /\ workbooks = AllWorkbooks["A"]
    /\ args = DefaultArgs
    /\ service = "reference"
    /\ run = 0
    /\ creds = FALSE
    /\ prior_merge_lookup = [q \in {} |-> None]
    /\ item_merges = <<>>
    /\ pidx = 1
    /\ idx = 0
    /\ reference_filters = <<>>
    /\ cur = NoCur
    /\ error = ""
    /\ pushes = NoPushes
    /\ revisit = <<>>
    /\ remote = {}
    /\ prev = [status |-> "none", item_merges |-> <<>>]
    /\ report = NoReport

\* All sequences over a set, up to a length
RECURSIVE SeqsUpTo(_, _)
SeqsUpTo(S, n) ==
    IF n = 0 THEN {<<>>}
    ELSE LET shorter == SeqsUpTo(S, n - 1)
         IN shorter \cup {Append(q, x) : q \in {t \in shorter : Len(t) = n - 1}, x \in S}

\* The records of the ledgers that are saved and loaded: the four variants
\* for each of two queries, each with the item it is matched to
LedgerQueries == {ItemReference("Gem", "Materials", 56),
                  ItemReference("WeltmanPrinceton", "Equipment", 7)}
LedgerMatch(q) == IF q.provider = "Gem" THEN ItemReference("Haller", "Equipment", 1)
                  ELSE ItemReference("Universe", "Materials", 2)
LedgerRecords ==
    {NoMatch(q) : q \in LedgerQueries}
        \cup {ExactCodeMatch(q, LedgerMatch(q)) : q \in LedgerQueries}
        \cup {StrongLLMMatch(q, LedgerMatch(q)) : q \in LedgerQueries}
        \cup {HazyLLMMatch(q, LedgerMatch(q)) : q \in LedgerQueries}

\* A checkpoint file that was not written by the script: one record of each
\* variant, with the given type tags
FileWithTags(exact, strong, hazy, nomatch) ==
    LET q == ItemReference_to_dict(ItemReference("Gem", "Materials", 56))
        m == ItemReference_to_dict(ItemReference("Haller", "Equipment", 1))
    IN [exists |-> TRUE,
        data |-> <<[type |-> exact, query |-> q, match |-> m],
                   [type |-> strong, query |-> q, match |-> m],
                   [type |-> hazy, query |-> q, match |-> m],
                   [type |-> nomatch, query |-> q]>>]

\* The files handed to the loader: tagged with the StrEnum values, and tagged
\* with the member names in snake case
GivenFiles == {FileWithTags("exactcode", "strongllm", "hazyllm", "nomatch"),
               FileWithTags("exact_code", "strong_llm", "hazy_llm", "no_match")}

\* Either a ledger is saved and loaded back, or a given file is loaded
InitSerial ==
    /\ NoRun
    /\ result = None
    /\ \/ /\ arg \in SeqsUpTo(LedgerRecords, MaxLedgerLen)
          /\ checkpoint = NoFile
          /\ pc = "unit_save"
       \/ /\ arg = <<>>
          /\ checkpoint \in GivenFiles
          /\ pc = "unit_load_given"

\* save_merges_to_json(arg, filename)
SaveMerges ==
    /\ pc = "unit_save"
    /\ checkpoint' = save_merges_to_json(arg)
    /\ pc' = "unit_load"
    /\ UNCHANGED <<merge_vars, arg, result>>

\* load_merges_from_json(filename): what it returned, or the exception
LoadMerges ==
    /\ pc \in {"unit_load", "unit_load_given"}
    /\ result' = load_merges_from_json(checkpoint)
    /\ pc' = IF pc = "unit_load" THEN "unit_loaded" ELSE "unit_loaded_given"
    /\ UNCHANGED <<merge_vars, arg, checkpoint>>

NextSerial == SaveMerges \/ LoadMerges

SpecSerial == InitSerial /\ [][NextSerial]_vars

\* The cells of the Id and Code columns of a data row
RowValues == {[Id |-> id, Code |-> code] : id \in {1, 2, NoId}, code \in {"A", "B", NoCode}}

\* The two worksheets of one provider's spreadsheet
InitCatalog ==
    /\ NoRun
    /\ checkpoint = NoFile
    /\ result = None
    /\ arg \in [SheetName -> SeqsUpTo(RowValues, MaxRows)]
    /\ pc = "unit_build"

\* ProviderSheet(provider, sheet_name, worksheet) for one of the worksheets
BuildSheet ==
    /\ pc = "unit_build"
    /\ \E s \in SheetName :
          result' = [built |-> "sheet", sheet_name |-> s,
                     value |-> ProviderSheet("Gem", s, arg[s])]
    /\ pc' = "unit_built"
    /\ UNCHANGED <<merge_vars, arg, checkpoint>>

\* ProviderWorkbook(provider)
BuildWorkbook ==
    /\ pc = "unit_build"
    /\ result' = [built |-> "workbook", value |-> ProviderWorkbookOf("Gem", arg)]
    /\ pc' = "unit_built"
    /\ UNCHANGED <<merge_vars, arg, checkpoint>>

\* The ids and codes that are looked up: those a row may hold and one of
\* each that no row holds
LookupIds == {1, 2, 3}
LookupCodes == {"A", "B", "C"}

\* One call of get_item_by_ref (for a reference of item_refs), get_item_by_id
\* or get_item_by_code on a workbook that was built
LookupItem ==
    /\ pc = "unit_built"
    /\ result.built = "workbook"
    /\ ~IsError(result.value)
    /\ \E lookup \in
            {[by |-> "ref", key |-> result.value.item_refs[k],
              returned |-> Workbook_get_item_by_ref(result.value, result.value.item_refs[k])] :
                 k \in 1..Len(result.value.item_refs)}
            \cup {[by |-> "id", key |-> id,
                   returned |-> Workbook_get_item_by_id(result.value, id)] : id \in LookupIds}
            \cup {[by |-> "code", key |-> code,
                   returned |-> Workbook_get_item_by_code(result.value, code)] :
                      code \in LookupCodes} :
          result' = [built |-> "workbook", value |-> result.value, lookup |-> lookup]
    /\ pc' = "unit_looked_up"
    /\ UNCHANGED <<merge_vars, arg, checkpoint>>

NextCatalog == BuildSheet \/ BuildWorkbook \/ LookupItem

SpecCatalog == InitCatalog /\ [][NextCatalog]_vars

\* The environment and the arguments send_push_notification is called with
EnvValues == {None, EnvValue(""), EnvValue("secret")}
Titles == {"Script Failed", "Script Completed", "Script Warning"}
Messages == {"", "Merged 4 items", "No match found for gem: 56, G56",
             "API returned None response for item gem:56"}

InitNotify ==
    /\ NoRun
    /\ checkpoint = NoFile
    /\ result = None
    /\ arg \in [token : EnvValues, user : EnvValues, title : Titles, message : Messages]
    /\ pc = "unit_notify"

\* send_push_notification(title, message): how it ended and the number of
\* outbound requests it made
SendPushNotification ==
    /\ pc = "unit_notify"
    /\ \E outcome \in send_push_notification(arg.token, arg.user) :
          result' = [outcome |-> outcome,
                     requests |-> IF outcome = "noop" THEN 0 ELSE 1]
    /\ pc' = "unit_notified"
    /\ UNCHANGED <<merge_vars, arg, checkpoint>>

NextNotify == SendPushNotification

SpecNotify == InitNotify /\ [][NextNotify]_vars

\* A Python list where the model has to tell it from a single value
PyList(seq) == [list |-> seq]

\* The reference items handed to generate_match_response_chunked
ReferenceItem(k) ==
    [provider |-> "Haller", sheet_name |-> "Equipment", id |-> k, code |-> ToString(100 + k)]

\* What one generate_match_response call on a list of items may give: NoMatch,
\* a proposal of one of the items (by id and code, or by its code with another
\* id), a proposal of an item that is not in the list, or an exception of the
\* request
OutcomesFor(items) ==
    {AIResponse("NoMatch", None), AIResponse("HazyMatch", UnknownItem),
     [raised |-> "ClientError"]}
        \cup {AIResponse("StrongMatch",
                         MatchingItem(items[i].provider, items[i].id, items[i].code)) :
                  i \in 1..Len(items)}
        \cup {AIResponse("HazyMatch", MatchingItem(items[i].provider, 0, items[i].code)) :
                  i \in 1..Len(items)}

\* reference_items[i:i + CHUNK_SIZE] for i in range(0, len(reference_items), CHUNK_SIZE)
reference_item_chunks(reference_items) ==
    LET n == Len(reference_items)
        count == (n + CHUNK_SIZE - 1) \div CHUNK_SIZE
    IN [j \in 1..count |->
            SubSeq(reference_items, (j - 1) * CHUNK_SIZE + 1,
                   IF j * CHUNK_SIZE < n THEN j * CHUNK_SIZE ELSE n)]

\* The items of reference_items that a proposal names by provider and id or
\* code, for every proposal in turn (lines 260-266 of ai.py)
candidate_items(reference_items, matching_chunk_responses) ==
    LET RECURSIVE Loop(_)
        Loop(k) ==
            IF k > Len(matching_chunk_responses) THEN <<>>
            ELSE LET response == matching_chunk_responses[k]
                 IN SelectSeq(reference_items, LAMBDA it :
                        /\ it.provider = response.item.provider
                        /\ (it.id = response.item.id \/ it.code = response.item.code))
                    \o Loop(k + 1)
    IN Loop(1)

\* return [self.generate_match_response(reference_items, query_item)]
ChunkedReturn(response) == PyList(<<response>>)

InitChunked ==
    /\ NoRun
    /\ checkpoint = NoFile
    /\ result = None
    /\ \E n \in 0..MaxReferenceItems :
          arg = [reference_items |-> [k \in 1..n |-> ReferenceItem(k)]]
    /\ pc = "unit_chunked"

\* generate_match_response_chunked up to its return or to the call over the
\* candidate items: the calls made (the list of items of each), the responses
\* they gave and what was returned or raised
GenerateChunked ==
    /\ pc = "unit_chunked"
    /\ LET reference_items == arg.reference_items
       IN IF Len(reference_items) <= CHUNK_SIZE
          THEN \E outcome \in OutcomesFor(reference_items) :
                 /\ result' = [calls |-> <<reference_items>>,
                               chunk_responses |-> <<outcome>>,
                               candidate_items |-> <<>>,
                               returned |-> IF IsError(outcome) THEN outcome
                                            ELSE ChunkedReturn(outcome)]
                 /\ pc' = "unit_chunked_done"
          ELSE LET chunks == reference_item_chunks(reference_items)
               IN \E outcomes \in [1..Len(chunks) -> OutcomesFor(reference_items)] :
                    /\ \A j \in 1..Len(chunks) : outcomes[j] \in OutcomesFor(chunks[j])
                    /\ LET failed == {j \in 1..Len(chunks) : IsError(outcomes[j])}
                           first_failed == CHOOSE j \in failed : \A i \in failed : j <= i
                           matching_chunk_responses ==
                               SelectSeq(outcomes, LAMBDA r : r.type # "NoMatch")
                           candidates == candidate_items(reference_items,
                                                         matching_chunk_responses)
                           ended(returned) ==
                               /\ result' = [calls |-> chunks, chunk_responses |-> outcomes,
                                             candidate_items |-> <<>>, returned |-> returned]
                               /\ pc' = "unit_chunked_done"
                       IN IF failed # {}
                          THEN /\ result' = [calls |-> SubSeq(chunks, 1, first_failed),
                                             chunk_responses |-> SubSeq(outcomes, 1, first_failed),
                                             candidate_items |-> <<>>,
                                             returned |-> outcomes[first_failed]]
                               /\ pc' = "unit_chunked_done"
                          ELSE IF Len(matching_chunk_responses) = 0 THEN ended(outcomes[1])
                          ELSE IF Len(matching_chunk_responses) = 1
                          THEN ended(matching_chunk_responses[1])
                          ELSE IF Len(candidates) = 0
                          THEN ended([raised |-> "NoMatchingItems"])
                          ELSE /\ result' = [calls |-> chunks, chunk_responses |-> outcomes,
                                             candidate_items |-> candidates,
                                             returned |-> None]
                               /\ pc' = "unit_reconcile"
    /\ UNCHANGED <<merge_vars, arg, checkpoint>>

\* return self.generate_match_response(candidate_items, query_item)
ReconcileWinners ==
    /\ pc = "unit_reconcile"
    /\ \E outcome \in OutcomesFor(result.candidate_items) :
          result' = [result EXCEPT !.calls = Append(@, result.candidate_items),
                                   !.returned = outcome]
    /\ pc' = "unit_chunked_done"
    /\ UNCHANGED <<merge_vars, arg, checkpoint>>

NextChunked == GenerateChunked \/ ReconcileWinners

SpecChunked == InitChunked /\ [][NextChunked]_vars

-----------------------------------------------------------------------------
(* Vocabulary of the properties *)

\* The catalog of a provider, read off the sheets
CatalogItems(provider) ==
    UNION {{workbook(provider).sheets[s].items[i] :
                i \in 1..Len(workbook(provider).sheets[s].items)} : s \in SheetName}

\* The item references of the providers that are matched
NonReferenceRefs == {to_item_ref(it) : it \in UNION {CatalogItems(p) : p \in Provider \ {reference_provider}}}

\* The catalog item behind an item reference
ItemOf(ref) == CHOOSE it \in CatalogItems(ref.provider) : to_item_ref(it) = ref

LastMerge == item_merges[Len(item_merges)]

Elements(seq) == {seq[i] : i \in 1..Len(seq)}

\* Position of a provider in the processing order
Position(provider) == CHOOSE k \in 1..Len(sorted_providers) : sorted_providers[k] = provider

\* No remote call and no catalog code lookup was made for the current item
NothingDoneForItem ==
    /\ cur.code_lookups = 0
    /\ cur.embeddings = 0
    /\ cur.searches = 0
    /\ cur.proposals = 0
    /\ cur.followups = 0
    /\ cur.item_ref \notin remote

\* A proposal resolves when its provider's catalog has an item with its id
\* or, failing that, with its code
ResolvesById(proposal) == \E it \in CatalogItems(proposal.provider) : it.id = proposal.id
ResolvesByCode(proposal) == \E it \in CatalogItems(proposal.provider) : it.code = proposal.code
Unresolved(response) ==
    /\ response # None
    /\ response.type # "NoMatch"
    /\ ~ResolvesById(response.item)
    /\ ~ResolvesByCode(response.item)
ResolvedItem(proposal) ==
    IF ResolvesById(proposal)
    THEN CHOOSE it \in CatalogItems(proposal.provider) : it.id = proposal.id
    ELSE CHOOSE it \in CatalogItems(proposal.provider) : it.code = proposal.code

-----------------------------------------------------------------------------
(* Properties *)

\* C1 (idempotent resume): in a run that follows a successfully completed run
\* and starts from the checkpoint file that run left, no remote call is made
\* and the final ledger equals the previous run's final ledger.
C1_IdempotentResume ==
    (run > 1 /\ prev.status = "done") =>
        /\ remote = {}
        /\ (pc = "done" => item_merges = prev.item_merges)

\* C2 (ledger totality): when __merge_all has returned, every item reference
\* of every non-reference provider is the query of exactly one record of the
\* ledger, and every record's query is such a reference.
C2_LedgerTotality ==
    pc = "done" =>
        /\ \A r \in NonReferenceRefs :
              Cardinality({i \in 1..Len(item_merges) : item_merges[i].query = r}) = 1
        /\ \A i \in 1..Len(item_merges) : item_merges[i].query \in NonReferenceRefs

\* A completed run that copied records of a prior checkpoint and evaluated others
C2_Witness ==
    /\ pc = "done"
    /\ DOMAIN prior_merge_lookup # {}
    /\ remote # {}
    /\ Len(item_merges) >= 4

\* C3 (exact-code short-circuit): an item that is evaluated and whose code is
\* the code of an item of the reference catalog gets ExactCodeMatch(query,
\* that item), and no embedding lookup, search or LLM request is made for it.
C3_ExactCodeShortCircuit ==
    cur.source \in {"exact", "llm"} =>
        LET code == ItemOf(cur.item_ref).code
            hits == {it \in CatalogItems(reference_provider) : it.code = code}
        IN IF hits # {}
           THEN /\ cur.source = "exact"
                /\ \E it \in hits : LastMerge = ExactCodeMatch(cur.item_ref, to_item_ref(it))
                /\ cur.embeddings = 0 /\ cur.searches = 0
                /\ cur.proposals = 0 /\ cur.followups = 0
                /\ cur.item_ref \notin remote
           ELSE cur.source = "llm"

\* An item of the last provider decided by its code, after LLM decisions
C3_Witness ==
    /\ cur.source = "exact"
    /\ cur.item_ref.provider = "WeltmanPrinceton"
    /\ LastMerge.cls = "ExactCodeMatch"
    /\ remote # {}

\* C4 (NoMatch propagation): the filters passed to the relevance filter for an
\* item of provider Q hold every NoMatch query of the providers processed
\* before Q, and no item of Q or of a provider processed after Q.
C4_NoMatchPropagation ==
    pc = "relevant" =>
        /\ \A m \in Elements(item_merges) :
              (IsNoMatch(m) /\ Position(m.query.provider) < Position(current_provider))
                  => ItemFilter(m.query) \in Elements(reference_filters)
        /\ \A f \in Elements(reference_filters) :
              f.kind = "ItemReference" =>
                  Position(f.ref.provider) < Position(current_provider)

\* C5 (resumption contract): the lookup built at the start holds exactly the
\* records of the checkpoint file, by query; an item that is a key of it gets
\* its prior record appended as it is, with no code lookup and no remote call;
\* every other item goes through the match decision policy.
C5_ResumptionContract ==
    /\ (pc = "provider" /\ pidx = 1) =>
          /\ \A q \in DOMAIN prior_merge_lookup :
                /\ prior_merge_lookup[q].query = q
                /\ ItemMerge_to_dict(prior_merge_lookup[q]) \in Elements(checkpoint.data)
          /\ \A d \in Elements(checkpoint.data) :
                ItemReference_from_dict(d.query) \in DOMAIN prior_merge_lookup
    /\ cur.source # "none" =>
          IF cur.item_ref \in DOMAIN prior_merge_lookup
          THEN /\ cur.source = "prior"
               /\ LastMerge = prior_merge_lookup[cur.item_ref]
               /\ NothingDoneForItem
          ELSE /\ cur.source \in {"exact", "llm"}
               /\ cur.code_lookups = 1

\* A record of an LLM decision copied from the prior checkpoint
C5_Witness ==
    /\ cur.source = "prior"
    /\ pc = "item"
    /\ LastMerge.cls = "HazyLLMMatch"
    /\ cur.item_ref.provider = "Universe"

\* C6 (follow-up exactly once): the follow-up is called at most once per item,
\* and it is called exactly when the first proposal is a match tier that does
\* not resolve; when the follow-up answers NoMatch or an item that resolves,
\* the record of the item is made from the follow-up's tier and item.
C6_FollowupOnce ==
    /\ cur.proposals <= 1
    /\ cur.followups <= 1
    /\ (cur.followups = 1) <=> Unresolved(cur.first)
    /\ (cur.follow # None /\ ~Unresolved(cur.follow)) =>
          /\ cur.raised = ""
          /\ LastMerge =
                IF cur.follow.type = "NoMatch" THEN NoMatch(cur.item_ref)
                ELSE IF cur.follow.type = "StrongMatch"
                THEN StrongLLMMatch(cur.item_ref, to_item_ref(ResolvedItem(cur.follow.item)))
                ELSE HazyLLMMatch(cur.item_ref, to_item_ref(ResolvedItem(cur.follow.item)))

\* A strong proposal that did not resolve, replaced by a hazy follow-up
C6_Witness ==
    /\ cur.first # None /\ cur.first.type = "StrongMatch"
    /\ cur.follow # None /\ cur.follow.type = "HazyMatch"
    /\ LastMerge.cls = "HazyLLMMatch"
    /\ LastMerge.query = cur.item_ref

\* C7 (second resolution failure): when the first proposal and the follow-up
\* both fail to resolve, the policy raises, the ledger gets no record of the
\* item, the checkpoint is written with the ledger as it stood, and the run
\* ends with that error.
C7_SecondFailureIsHard ==
    (Unresolved(cur.first) /\ Unresolved(cur.follow)) =>
        /\ cur.raised = "NoMatchFound"
        /\ pc \in {"flush", "notify_failed", "raise", "failed"}
        /\ \A m \in Elements(item_merges) : m.query # cur.item_ref
        /\ pc # "flush" => checkpoint = save_merges_to_json(item_merges)
        /\ pc = "failed" => error = "NoMatchFound"

\* C8 (manual review): an item that became a hard failure because the
\* follow-up did not resolve either is on the revisit list when the error
\* has left the orchestrator.
C8_HardFailureRecorded ==
    (pc = "failed" /\ cur.raised = "NoMatchFound") => cur.item_ref \in Elements(revisit)

\* C9 (fatal-error ordering): after the match decision raised, the checkpoint
\* holding the whole ledger is written first, then the failure notification
\* is made, then that error leaves the orchestrator; the ledger does not
\* change after the checkpoint write.
C9_FatalErrorOrdering ==
    cur.raised # "" =>
        /\ pc \in {"flush", "notify_failed", "raise", "failed"}
        /\ pc \in {"flush", "notify_failed"} => pushes.failed = 0
        /\ pc # "flush" => checkpoint = save_merges_to_json(item_merges)
        /\ pc \in {"raise", "failed"} => (creds => pushes.failed = 1)
        /\ pc = "failed" => error = cur.raised

\* C10 (no completed work is lost): a record that is in the checkpoint file
\* stays in the checkpoint file, at every step of every run.
C10_NoCompletedWorkLost ==
    [][\A d \in Elements(checkpoint.data) : d \in Elements(checkpoint'.data)]_vars

-----------------------------------------------------------------------------
(* Vocabulary of the report properties *)

\* The provider of each column of the report: the reference provider, then
\* the other providers in sorted order
ExpectedColumns == <<"Haller", "Gem", "Universe", "WeltmanPrinceton">>

ColumnOf(provider) == CHOOSE c \in 1..Len(ExpectedColumns) : ExpectedColumns[c] = provider

\* Position of an item reference in the catalog of its provider
CatalogPosition(ref) ==
    CHOOSE k \in 1..Len(workbook(ref.provider).item_refs) :
        workbook(ref.provider).item_refs[k] = ref

\* The ledger records of one provider that target an anchor, in ledger order
Targeting(anchor, provider) ==
    SelectSeq(item_merges, LAMBDA m :
        ~IsNoMatch(m) /\ m.match = anchor /\ m.query.provider = provider)

\* Number of rows an anchor is expected to take
ExpectedRows(anchor) ==
    LET counts == {Len(Targeting(anchor, p)) : p \in Provider \ {anchor.provider}} \cup {1}
    IN CHOOSE n \in counts : \A c \in counts : c <= n

\* Number of rows before the rows of the i-th anchor
RECURSIVE RowsBefore(_)
RowsBefore(i) ==
    IF i <= 1 THEN 0
    ELSE RowsBefore(i - 1) + ExpectedRows(report.coalesced_merges[i - 1][1])

\* The cell of a catalog item
CellOf(ref, match_type) ==
    [match_type |-> match_type, id |-> ItemOf(ref).id, code |-> ItemOf(ref).code]

-----------------------------------------------------------------------------
(* Properties of the report and of the decision policy *)

\* C13 (fan-out coalescing): an anchor takes max(1, the largest number of
\* records targeting it from one provider other than its own) rows; in its
\* k-th row (0-based) the cell of such a provider holds the provider's k-th
\* record targeting the anchor when there is one and is empty otherwise, and
\* the cell of the anchor's provider holds the anchor.
C13_FanOutCoalescing ==
    report.written =>
        LET n == Len(report.coalesced_merges)
        IN /\ Len(report.output_data) = RowsBefore(n + 1)
           /\ \A i \in 1..n :
                LET anchor == report.coalesced_merges[i][1]
                IN \A k \in 0..(ExpectedRows(anchor) - 1) :
                     LET row == report.output_data[RowsBefore(i) + k + 1]
                     IN \A X \in Provider :
                          row[ColumnOf(X)] =
                            IF X = anchor.provider THEN CellOf(anchor, NoType)
                            ELSE IF Len(Targeting(anchor, X)) > k
                            THEN CellOf(Targeting(anchor, X)[k + 1].query,
                                        Targeting(anchor, X)[k + 1].type)
                            ELSE None

\* An anchor matched by three items of one provider and one of another: three
\* rows, the second provider empty in rows 2 and 3
C13_Witness ==
    /\ report.written
    /\ \E i \in 1..Len(report.coalesced_merges) :
         LET anchor == report.coalesced_merges[i][1]
         IN /\ Len(Targeting(anchor, "Gem")) = 3
            /\ Len(Targeting(anchor, "Universe")) = 1
            /\ report.output_data[RowsBefore(i) + 2][ColumnOf("Universe")] = None
            /\ report.output_data[RowsBefore(i) + 3][ColumnOf("Universe")] = None
            /\ report.output_data[RowsBefore(i) + 3][ColumnOf("Gem")] # None

\* C14 (cluster anchors): the anchors of a complete ledger are the items of
\* the reference provider and the items whose record is NoMatch, each once,
\* reference provider first, then the providers in sorted order, catalog
\* order within a provider; the records of an anchor are the ledger records
\* whose match is the anchor.
C14_ClusterAnchors ==
    report.written =>
        LET cm == report.coalesced_merges
            anchors == {cm[i][1] : i \in 1..Len(cm)}
        IN /\ anchors = {r \in AllItemRefs :
                            \/ r.provider = reference_provider
                            \/ \E m \in Elements(item_merges) : IsNoMatch(m) /\ m.query = r}
           /\ \A i, j \in 1..Len(cm) : i < j =>
                \/ ColumnOf(cm[i][1].provider) < ColumnOf(cm[j][1].provider)
                \/ /\ cm[i][1].provider = cm[j][1].provider
                   /\ CatalogPosition(cm[i][1]) < CatalogPosition(cm[j][1])
           /\ \A i \in 1..Len(cm) :
                cm[i][2] = SelectSeq(item_merges, LAMBDA m : ~IsNoMatch(m) /\ m.match = cm[i][1])

\* A report with an anchor of the reference provider that gathers records
\* and an anchor that is a NoMatch item of the last provider
C14_Witness ==
    /\ report.written
    /\ \E i, j \in 1..Len(report.coalesced_merges) :
         /\ report.coalesced_merges[i][1].provider = reference_provider
         /\ Len(report.coalesced_merges[i][2]) >= 2
         /\ report.coalesced_merges[j][1].provider = "WeltmanPrinceton"

\* C15 (column order): every row has one cell per provider, and the cell of
\* column c is empty or an item of the c-th provider of the fixed order, also
\* in the rows of an anchor that is not of the reference provider.
C15_ColumnOrder ==
    \A r \in 1..Len(report.output_data) :
        /\ Len(report.output_data[r]) = Cardinality(Provider)
        /\ \A c \in 1..Len(report.output_data[r]) :
             LET cell == report.output_data[r][c]
             IN cell # None =>
                  \E it \in CatalogItems(ExpectedColumns[c]) :
                      it.id = cell.id /\ it.code = cell.code

\* A row whose anchor is a Gem item: its own cell is in the second column
C15_Witness ==
    /\ report.written
    /\ \E r \in 1..Len(report.output_data) :
         /\ report.output_data[r][1] = None
         /\ report.output_data[r][2] # None
         /\ report.output_data[r][2].match_type = NoType

C17_ProposalValidationOrder ==
    LET decisive == IF cur.follow # None THEN cur.follow ELSE cur.first
    IN (decisive # None /\ decisive.type # "NoMatch") =>
          LET p == decisive.item
          IN IF ResolvesById(p)
             THEN /\ LastMerge.query = cur.item_ref
                  /\ ItemOf(LastMerge.match).id = p.id
                  /\ LastMerge.match.provider = p.provider
             ELSE IF ResolvesByCode(p)
             THEN /\ LastMerge.query = cur.item_ref
                  /\ ItemOf(LastMerge.match).code = p.code
                  /\ LastMerge.match.provider = p.provider
             ELSE /\ \A m \in Elements(item_merges) : m.query # cur.item_ref
                  /\ IF cur.follow = None THEN cur.followups = 1
                     ELSE cur.raised = "NoMatchFound"

\* The proposal has the id of one item and the code of another: id decides
C17_Witness ==
    /\ cur.first # None
    /\ cur.first.item = IdOfOneCodeOfOther
    /\ cur.follow = None
    /\ LastMerge.query = cur.item_ref
    /\ ItemOf(LastMerge.match).id = 1
    /\ ItemOf(LastMerge.match).code # "Y200"

\* C18 (bounded rate-limit retry): a generation request that is rate limited
\* every time is made at most 3 times, then the rate-limit error is surfaced
\* and the item gets no record; another error is surfaced at once.
C18_BoundedRetry ==
    /\ (pc \in {"first", "followup"} /\ cur.rate_limited = cur.attempt) => cur.attempt < 3
    /\ cur.raised \in {"RateLimited", "ClientError"} =>
          /\ pc \in {"flush", "notify_failed", "raise", "failed"}
          /\ \A m \in Elements(item_merges) : m.query # cur.item_ref

\* C19 (report only after a full pass): the report is built and written only
\* in a run in which __merge_all returned with a record for every item of the
\* non-reference providers; in a run that raised, nothing is built or written.
C19_ReportOnlyAfterFullPass ==
    /\ report # NoReport =>
          /\ report.written
          /\ pc = "reported"
          /\ error = "" /\ cur.raised = ""
          /\ \A r \in NonReferenceRefs : \E m \in Elements(item_merges) : m.query = r
    /\ (pc \in {"flush", "notify_failed", "raise", "failed"} \/ error # "") =>
          report = NoReport

\* A report written by the run that resumed a failed run
C19_Witness ==
    /\ report.written
    /\ run > 1
    /\ prev.status = "failed"
    /\ DOMAIN prior_merge_lookup # {}

-----------------------------------------------------------------------------
(* Properties of the serialization and of the catalog index *)

\* The type tag the record of a variant is said to carry
TagOf(cls) ==
    CASE cls = "ExactCodeMatch" -> "exact_code"
      [] cls = "StrongLLMMatch" -> "strong_llm"
      [] cls = "HazyLLMMatch" -> "hazy_llm"
      [] cls = "NoMatch" -> "no_match"

\* C11 (serialization round-trip): loading the file a ledger was saved to
\* gives a ledger of the same length whose i-th record has the variant, the
\* query and (for a match variant) the match of the i-th record saved.
C11_RoundTrip ==
    pc = "unit_loaded" =>
        /\ ~IsError(result)
        /\ Len(result.returned) = Len(arg)
        /\ \A i \in 1..Len(arg) :
              /\ result.returned[i].cls = arg[i].cls
              /\ result.returned[i].query = arg[i].query
              /\ ~IsNoMatch(arg[i]) => result.returned[i].match = arg[i].match

\* A ledger with one record of each of the four variants was saved and loaded
C11_Witness ==
    /\ pc = "unit_loaded"
    /\ Len(arg) = 4
    /\ {arg[i].cls : i \in 1..Len(arg)} =
          {"ExactCodeMatch", "StrongLLMMatch", "HazyLLMMatch", "NoMatch"}
    /\ {arg[i].query : i \in 1..Len(arg)} = LedgerQueries

\* C12 (checkpoint record tags): a saved record carries the tag exact_code,
\* strong_llm, hazy_llm or no_match of its variant, a no_match record has no
\* match field and every other record has one, and a file whose records carry
\* these tags is accepted by the loader.
C12_CheckpointRecordTags ==
    /\ pc = "unit_load" =>
          \A i \in 1..Len(arg) :
              /\ checkpoint.data[i].type = TagOf(arg[i].cls)
              /\ (checkpoint.data[i].type = "no_match")
                    <=> ("match" \notin DOMAIN checkpoint.data[i])
    /\ (pc = "unit_loaded_given"
            /\ \A d \in Elements(checkpoint.data) :
                  d.type \in {"exact_code", "strong_llm", "hazy_llm", "no_match"}) =>
          ~IsError(result)

\* C20 (catalog index construction fails fast): building the index of a sheet
\* raises when a row has no id or no code or repeats the id or the code of
\* an earlier row of the sheet, and so does building the workbook; a sheet
\* that was built has pairwise distinct ids and codes, and a workbook that
\* was built has them distinct across its two sheets as well.
C20_CatalogIndexFailsFast ==
    pc = "unit_built" =>
        LET bad(rows) ==
                \E i \in 1..Len(rows) :
                    \/ rows[i].Id = NoId
                    \/ rows[i].Code = NoCode
                    \/ \E j \in 1..(i - 1) :
                          rows[j].Id = rows[i].Id \/ rows[j].Code = rows[i].Code
            distinct(items) ==
                \A i, j \in 1..Len(items) :
                    i # j => items[i].id # items[j].id /\ items[i].code # items[j].code
        IN IF result.built = "sheet"
           THEN /\ bad(arg[result.sheet_name]) <=> IsError(result.value)
                /\ ~IsError(result.value) =>
                      /\ Len(result.value.items) = Len(arg[result.sheet_name])
                      /\ distinct(result.value.items)
           ELSE /\ (\E s \in SheetName : bad(arg[s])) => IsError(result.value)
                /\ ~IsError(result.value) =>
                      /\ \A s \in SheetName : distinct(result.value.sheets[s].items)
                      /\ distinct(result.value.sheets["Equipment"].items
                                    \o result.value.sheets["Materials"].items)

\* Two sheets that are each well formed and share a code: the workbook is
\* not built
C20_Witness ==
    /\ pc = "unit_built"
    /\ result.built = "workbook"
    /\ IsError(result.value)
    /\ Len(arg["Equipment"]) = 2 /\ Len(arg["Materials"]) = 2
    /\ ~IsError(ProviderSheet("Gem", "Equipment", arg["Equipment"]))
    /\ ~IsError(ProviderSheet("Gem", "Materials", arg["Materials"]))

-----------------------------------------------------------------------------
(* Properties of the collaborators and of the run, continued *)

\* C21 (notification without credentials): when the token or the user is not
\* set, send_push_notification makes no outbound request, raises nothing and
\* returns, whatever the title and the message.
C21_NoCredentialsNoOp ==
    (pc = "unit_notified" /\ (arg.token = None \/ arg.user = None)) =>
        /\ result.outcome = "noop"
        /\ result.requests = 0

\* The token is set and the user is not: the call returned without a request
C21_Witness ==
    /\ pc = "unit_notified"
    /\ arg.token = EnvValue("secret")
    /\ arg.user = None
    /\ arg.title = "Script Failed"
    /\ result.outcome = "noop"

\* C22 (reference-provider selection): the provider selected with the
\* --reference-provider option is the one the run treats as the reference
\* provider: no item of it is matched, exact-code matches name an item of it,
\* and the first column of the report holds its items.
C22_ReferenceProviderSelection ==
    LET selected == ProviderFromValue(args.reference_provider)
    IN /\ \A m \in Elements(item_merges) : m.query.provider # selected
       /\ \A m \in Elements(item_merges) :
             m.cls = "ExactCodeMatch" => m.match.provider = selected
       /\ \A r \in 1..Len(report.output_data) :
             LET cell == report.output_data[r][1]
             IN cell # None =>
                  \E it \in CatalogItems(selected) : it.id = cell.id /\ it.code = cell.code

\* C23 (the relevance filter requires a precomputed embedding): when the
\* vector store has no record, or a record without a vector, for the query
\* item, get_relevant_items raises; no similarity search is made, no embedding
\* is requested, no LLM request is made, the item gets no record and the run
\* takes the fatal path. A search is made only with an embedding that was found.
C23_EmbeddingRequired ==
    /\ cur.record \in {"absent", "no_vector"} =>
          /\ cur.raised = "NoEmbedding"
          /\ cur.searches = 0 /\ cur.generated = 0
          /\ cur.proposals = 0 /\ cur.followups = 0
          /\ pc \in {"flush", "notify_failed", "raise", "failed"}
          /\ \A m \in Elements(item_merges) : m.query # cur.item_ref
          /\ pc # "flush" => checkpoint = save_merges_to_json(item_merges)
          /\ report = NoReport
    /\ cur.searches > 0 => cur.record = "found"

\* A run that ended because the record of an item had no vector, after
\* other items were decided
C23_Witness ==
    /\ pc = "failed"
    /\ cur.record = "no_vector"
    /\ cur.embeddings = 1
    /\ Len(item_merges) >= 2

\* The item references of the providers from the k-th of the sorted order on,
\* the reference provider left out, each provider in catalog order
RECURSIVE OrderFrom(_)
OrderFrom(k) ==
    IF k > Len(sorted_providers) THEN <<>>
    ELSE IF sorted_providers[k] = reference_provider THEN OrderFrom(k + 1)
    ELSE workbook(sorted_providers[k]).item_refs \o OrderFrom(k + 1)

\* C24 (strictly sequential, ordered processing): at every point of a run the
\* queries of the ledger, in ledger order, are a prefix of the item references
\* of the non-reference providers taken in sorted provider order and catalog
\* order, and no record's query is an item of the reference provider.
C24_OrderedProcessing ==
    LET order == OrderFrom(1)
        n == Len(item_merges)
    IN /\ n <= Len(order)
       /\ \A i \in 1..n : item_merges[i].query = order[i]
       /\ \A i \in 1..n : item_merges[i].query.provider # reference_provider

\* A resumed run that is past two providers and has evaluated an item of the
\* last one
C24_Witness ==
    /\ run > 1
    /\ pc = "item"
    /\ Len(item_merges) >= 5
    /\ LastMerge.query.provider = "WeltmanPrinceton"
    /\ cur.source = "llm"
    /\ \E m \in Elements(item_merges) : m.query.provider = "Universe"

\* The records of the in-memory ledger that are not in the checkpoint file
Unsaved ==
    {i \in 1..Len(item_merges) :
        ItemMerge_to_dict(item_merges[i]) \notin Elements(checkpoint.data)}

\* C25 (periodic persistence): at every point of a run at most
\* CHECKPOINT_INTERVAL records of the in-memory ledger are missing from the
\* checkpoint file as it was last written, and every write of the checkpoint
\* file writes the whole in-memory ledger of that moment.
C25_PeriodicPersistence ==
    /\ [](Cardinality(Unsaved) <= CHECKPOINT_INTERVAL)
    /\ [][checkpoint' # checkpoint => checkpoint' = save_merges_to_json(item_merges')]_vars

\* Two records were appended since the last write, which holds the records
\* before them
C25_Witness ==
    /\ pc = "item"
    /\ Cardinality(Unsaved) = CHECKPOINT_INTERVAL
    /\ Len(item_merges) >= 4
    /\ Len(checkpoint.data) = Len(item_merges) - CHECKPOINT_INTERVAL

\* C26 (success signal): the completion notification is made exactly once in
\* a run that completes, only when every item of every non-reference provider
\* has a record, with the number of these items as its count; it is never
\* made in a run that ends with an error.
C26_SuccessSignal ==
    /\ Len(pushes.signals) <= 1
    /\ pc \in {"done", "reported"} => Len(pushes.signals) = 1
    /\ pushes.signals # <<>> =>
          /\ \A r \in NonReferenceRefs : \E m \in Elements(item_merges) : m.query = r
          /\ pushes.signals[1] = Cardinality(NonReferenceRefs)
    /\ (pc \in {"flush", "notify_failed", "raise", "failed"} \/ error # "") =>
          pushes.signals = <<>>

\* C27 (closed set of decision outcomes): a call of the match decision policy
\* either raises, and the item gets no record, or returns one record whose
\* query is the evaluated item and which is an ExactCodeMatch, a
\* StrongLLMMatch, a HazyLLMMatch or a NoMatch; a StrongLLMMatch is returned
\* only for an accepted response of tier StrongMatch, a HazyLLMMatch only for
\* tier HazyMatch and a NoMatch only for tier NoMatch.
C27_ClosedDecisionOutcomes ==
    cur.source \in {"exact", "llm"} =>
        LET accepted == IF cur.follow # None THEN cur.follow ELSE cur.first
            records == {i \in 1..Len(item_merges) : item_merges[i].query = cur.item_ref}
        IN IF cur.raised # "" \/ pc \in {"relevant", "first", "followup"}
           THEN records = {}
           ELSE /\ records = {Len(item_merges)}
                /\ LastMerge.cls \in {"ExactCodeMatch", "StrongLLMMatch",
                                      "HazyLLMMatch", "NoMatch"}
                /\ LastMerge.cls = "ExactCodeMatch" =>
                      cur.source = "exact" /\ LastMerge.type = "ExactCode"
                /\ LastMerge.cls = "StrongLLMMatch" =>
                      /\ accepted # None /\ accepted.type = "StrongMatch"
                      /\ LastMerge.type = "StrongLLM"
                /\ LastMerge.cls = "HazyLLMMatch" =>
                      /\ accepted # None /\ accepted.type = "HazyMatch"
                      /\ LastMerge.type = "HazyLLM"
                /\ LastMerge.cls = "NoMatch" =>
                      /\ accepted # None /\ accepted.type = "NoMatch"
                      /\ LastMerge.type = "NoMatch"

\* A hazy proposal that did not resolve, answered by NoMatch in the follow-up
C27_Witness ==
    /\ pc = "item"
    /\ cur.source = "llm"
    /\ cur.first # None /\ cur.first.type = "HazyMatch"
    /\ cur.follow # None /\ cur.follow.type = "NoMatch"
    /\ LastMerge = NoMatch(cur.item_ref)

\* C28 (best-effort notification): a failure of the notification request
\* never changes the outcome of a run: no exception of the notification leaves
\* the match decision or the orchestrator, a run ends with an error only when
\* the match decision raised, and then with that error.
C28_BestEffortNotification ==
    /\ cur.raised # "NotificationError"
    /\ error # "NotificationError"
    /\ pc = "failed" => (cur.raised # "" /\ error = cur.raised)

\* A reply that has one of the three tiers and an item exactly with a match tier
WellFormed(response) ==
    /\ response.type \in AIMatchType
    /\ (response.item # None) <=> (response.type \in {"StrongMatch", "HazyMatch"})

\* C29 (typed response consistency): a response is accepted only if it has one
\* of the three tiers and carries an item exactly when the tier is StrongMatch
\* or HazyMatch; any other response is rejected with an error before it is
\* resolved against the catalog, and that error ends the run through the fatal
\* path: the request is not made again, no follow-up is made for it and the
\* item gets no record.
C29_TypedResponseConsistency ==
    /\ cur.first # None => WellFormed(cur.first)
    /\ cur.follow # None => WellFormed(cur.follow)
    /\ cur.rejected # None =>
          /\ ~WellFormed(cur.rejected)
          /\ cur.raised = "ValidationError"
          /\ pc \in {"flush", "notify_failed", "raise", "failed"}
          /\ \A m \in Elements(item_merges) : m.query # cur.item_ref
          /\ cur.proposals = 1
          /\ IF cur.first = None THEN cur.followups = 0 /\ cur.follow = None
             ELSE cur.followups = 1 /\ cur.follow = None
          /\ pc # "flush" => checkpoint = save_merges_to_json(item_merges)

\* The follow-up answered NoMatch with an item: the run ended
C29_Witness ==
    /\ pc = "failed"
    /\ cur.first # None
    /\ cur.followups = 1
    /\ cur.rejected = AIResponse("NoMatch", ExistingItem)

\* Cells a to b of a rendered row
Section(row, c) == SubSeq(row, 11 * (c - 1) + 1, 11 * c)

\* C30 (output row shape): every rendered row has 11 cells per provider; the
\* section of a provider with no item in the row is 'No Match' followed by 10
\* empty cells; the section of the anchor's provider starts with '(Original)'
\* in every row of the anchor; the section of an ExactCodeMatch or
\* StrongLLMMatch record starts with 'Matched' and that of a HazyLLMMatch
\* record with 'Hazy Match'.
C30_OutputRowShape ==
    report.written =>
        LET rows == report.table.rows
            n == Len(report.coalesced_merges)
        IN /\ Len(rows) = RowsBefore(n + 1)
           /\ \A r \in 1..Len(rows) : Len(rows[r]) = 11 * Cardinality(Provider)
           /\ \A i \in 1..n :
                LET anchor == report.coalesced_merges[i][1]
                IN \A k \in 0..(ExpectedRows(anchor) - 1) :
                     \A X \in Provider :
                        LET section == Section(rows[RowsBefore(i) + k + 1], ColumnOf(X))
                            records == Targeting(anchor, X)
                        IN IF X = anchor.provider
                           THEN section[1] = Text("(Original)")
                           ELSE IF Len(records) > k
                           THEN section[1] =
                                   IF records[k + 1].cls = "HazyLLMMatch"
                                   THEN Text("Hazy Match") ELSE Text("Matched")
                           ELSE /\ section[1] = Text("No Match")
                                /\ \A j \in 2..11 : section[j] = None

\* A row with the anchor, a matched item, a hazily matched item and a provider
\* that has no item in the row
C30_Witness ==
    /\ report.written
    /\ \E r \in 1..Len(report.table.rows) :
         LET first(c) == Section(report.table.rows[r], c)[1]
         IN /\ first(1) = Text("(Original)")
            /\ first(2) = Text("Hazy Match")
            /\ first(3) = Text("Matched")
            /\ first(4) = Text("No Match")

-----------------------------------------------------------------------------
(* Properties of the chunked generation call, of the checkpoint at the end of
   a run, of the report and of the catalog lookups *)

\* C31 (chunked consensus fallback): when every request it makes returns,
\* generate_match_response_chunked returns a single response. For a reference
\* set of at most CHUNK_SIZE items it makes one call on the whole set and
\* returns its response; otherwise it makes one call per chunk, in order, and
\* returns the first chunk's NoMatch when no chunk proposes a match, the
\* proposal when exactly one chunk does, and the response of one more call on
\* the proposed winners when two or more do.
C31_ChunkedConsensus ==
    (pc = "unit_chunked_done"
        /\ \A j \in 1..Len(result.chunk_responses) : ~IsError(result.chunk_responses[j])
        /\ (Len(result.calls) > Len(result.chunk_responses) => ~IsError(result.returned))) =>
        LET reference_items == arg.reference_items
            responses == result.chunk_responses
            proposals == SelectSeq(responses, LAMBDA r : r.type # "NoMatch")
        IN /\ "type" \in DOMAIN result.returned
           /\ IF Len(reference_items) <= CHUNK_SIZE
              THEN /\ result.calls = <<reference_items>>
                   /\ result.returned = responses[1]
              ELSE /\ SubSeq(result.calls, 1, Len(responses))
                         = reference_item_chunks(reference_items)
                   /\ Len(proposals) = 0 =>
                         result.returned = responses[1] /\ Len(result.calls) = Len(responses)
                   /\ Len(proposals) = 1 =>
                         result.returned = proposals[1] /\ Len(result.calls) = Len(responses)
                   /\ Len(proposals) >= 2 =>
                         /\ Len(result.calls) = Len(responses) + 1
                         /\ \A it \in Elements(result.calls[Len(result.calls)]) :
                               \E k \in 1..Len(proposals) : proposals[k].item.code = it.code

\* C32 (checkpoint completeness at success): when a run has completed without
\* error, the checkpoint file holds the whole final ledger: it is the saved
\* form of the in-memory ledger and has a record for every item of every
\* non-reference provider.
C32_CheckpointCompleteAtSuccess ==
    (pc \in {"done", "reported"} /\ error = "") =>
        /\ file_exists(checkpoint)
        /\ checkpoint = save_merges_to_json(item_merges)
        /\ \A r \in NonReferenceRefs :
              \E k \in 1..Len(checkpoint.data) :
                  checkpoint.data[k].query = ItemReference_to_dict(r)

\* The rows of the report in which an item appears, as an anchor or as a
\* matched item, in the column of its provider
RowsOf(ref) ==
    {k \in 1..Len(report.output_data) :
        LET shown == report.output_data[k][ColumnOf(ref.provider)]
        IN /\ shown # None
           /\ shown.id = ItemOf(ref).id
           /\ shown.code = ItemOf(ref).code}

\* C33 (every item is reported): in the report of a complete run every item
\* of every provider appears in at least one row, in the column of its
\* provider; and every match record's target is a cluster anchor, that is an
\* item of the reference provider or an item whose own record is NoMatch.
C33_EveryItemReported ==
    report.written =>
        /\ \A r \in AllItemRefs : RowsOf(r) # {}
        /\ \A m \in Elements(item_merges) :
              ~IsNoMatch(m) =>
                 \/ m.match.provider = reference_provider
                 \/ \E n \in Elements(item_merges) : n.query = m.match /\ IsNoMatch(n)

\* C34 (matches stay within the candidate scope): whenever the LLM stage
\* appends a StrongLLMMatch or a HazyLLMMatch for the item it evaluated, the
\* target of the record is one of the candidates that get_relevant_items
\* returned for that item; it is not the query item, not an item of the
\* query's provider and not an item of a provider that is merged later.
C34_MatchWithinCandidateScope ==
    [][(pc \in {"first", "followup"} /\ Len(item_merges') = Len(item_merges) + 1) =>
          LET merge == item_merges'[Len(item_merges')]
          IN merge.cls \in {"StrongLLMMatch", "HazyLLMMatch"} =>
                /\ merge.query = item_ref
                /\ merge.match \in cur.relevant_items
                /\ merge.match # merge.query
                /\ merge.match.provider # merge.query.provider
                /\ \/ merge.match.provider = reference_provider
                   \/ Position(merge.match.provider) < Position(merge.query.provider)]_vars

\* The item references of the rows of a worksheet, in row order
RowRefs(sheet_name) ==
    [i \in 1..Len(arg[sheet_name]) |-> ItemReference("Gem", sheet_name, arg[sheet_name][i].Id)]

\* C35 (catalog index lookup consistency): on a workbook index that was
\* built, get_item_by_ref of every reference of item_refs returns an item
\* with that reference, and get_item_by_id of its id and get_item_by_code of
\* its code return the same item; an id or a code that no item has gives
\* None; item_refs holds each item once, the rows of the Equipment sheet
\* first and then those of the Materials sheet, in row order; and a lookup
\* returns what the index gives and leaves the index as it was.
C35_LookupConsistency ==
    /\ []((pc \in {"unit_built", "unit_looked_up"} /\ result.built = "workbook"
              /\ ~IsError(result.value)) =>
            LET wb == result.value
                refs == wb.item_refs
            IN /\ \A k \in 1..Len(refs) :
                     LET found == Workbook_get_item_by_ref(wb, refs[k])
                     IN /\ ~IsError(found)
                        /\ to_item_ref(found) = refs[k]
                        /\ Workbook_get_item_by_id(wb, refs[k].id) = found
                        /\ Workbook_get_item_by_code(wb, found.code) = found
               /\ \A id \in LookupIds :
                     (\A k \in 1..Len(refs) : refs[k].id # id) =>
                        Workbook_get_item_by_id(wb, id) = None
               /\ \A code \in LookupCodes :
                     (\A s \in SheetName : \A i \in 1..Len(arg[s]) : arg[s][i].Code # code) =>
                        Workbook_get_item_by_code(wb, code) = None
               /\ refs = RowRefs("Equipment") \o RowRefs("Materials")
               /\ \A i, j \in 1..Len(refs) : i # j => refs[i] # refs[j])
    /\ [][pc' = "unit_looked_up" =>
             /\ result'.value = result.value
             /\ result'.lookup.by = "id" =>
                   result'.lookup.returned \in
                      {None} \cup {it \in Elements(result.value.sheets["Equipment"].items
                                                    \o result.value.sheets["Materials"].items) :
                                      it.id = result'.lookup.key}
             /\ result'.lookup.by = "code" =>
                   result'.lookup.returned \in
                      {None} \cup {it \in Elements(result.value.sheets["Equipment"].items
                                                    \o result.value.sheets["Materials"].items) :
                                      it.code = result'.lookup.key}]_vars

\* A workbook with one item in each sheet, where the item of the Materials
\* sheet was looked up by its code
C35_Witness ==
    /\ pc = "unit_looked_up"
    /\ Len(result.value.item_refs) = 2
    /\ result.value.item_refs[1].sheet_name = "Equipment"
    /\ result.value.item_refs[2].sheet_name = "Materials"
    /\ result.lookup.by = "code"
    /\ result.lookup.returned # None
    /\ to_item_ref(result.lookup.returned) = result.value.item_refs[2]

====
